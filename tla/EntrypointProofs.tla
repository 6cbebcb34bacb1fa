------------------------- MODULE EntrypointProofs -------------------------
(***************************************************************************)
(* What the files of an entrypoint promise: that of its accounts           *)
(* (IlinkAccounts), for any accounts, pairings, messages and bounds, and   *)
(* that of its owner (OwnerBind), for any entrypoints, senders, configured *)
(* owners and calls of notify_owner.  The two have nothing in common but   *)
(* the process they run in, and are proved about one after the other.      *)
(***************************************************************************)
EXTENDS IlinkAccounts, OwnerBind, FiniteSetTheorems, TLAPS

USE IlinkAssumption DEF IlinkAssumption, Pollers

-----------------------------------------------------------------------------
(* The accounts: what is true of every state                               *)

\* A pairing whose account is known, and which is not over.
InHand(p) == pairing[p].stage \in {"save", "register", "start", "report"}

\* A poller in the map is that of its account; one that a pairing made comes
\* there when that registers it.
InMap ==
    \A a \in Accounts : accounts[a] # None =>
        /\ poller[accounts[a]].account = a
        /\ accounts[a] \in Accounts => accounts[a] = a
        /\ accounts[a] \in Pairings =>
              /\ pairing[accounts[a]].account = a
              /\ pairing[accounts[a]].stage \in {"start", "report", "ended"}

\* A pairing in hand has its account to itself, and what it has done so far is there.
Hands ==
    \A p \in Pairings :
        /\ pairing[p].stage \in {"none", "poll"} => pairing[p].account = None
        /\ InHand(p) => pairing[p].account # None /\ pairing[p].account \notin deleting
        /\ pairing[p].stage \in {"register", "start"} => poller[p].account = pairing[p].account
        /\ pairing[p].stage = "register" => record[pairing[p].account] = p
        /\ pairing[p].stage \in {"start", "report"} => accounts[pairing[p].account] = p
        /\ InHand(p) => \A q \in Pairings \ {p} :
              InHand(q) => pairing[q].account # pairing[p].account

\* Nothing is in hand before the API is served, and nothing is in memory while the
\* program is down.
Quiet ==
    /\ \A a \in deleting : accounts[a] = None
    /\ process \in {"down", "starting"} =>
          deleting = {} /\ \A p \in Pairings : ~InHand(p) /\ pairing[p].stage # "poll"
    /\ process = "down" =>
          /\ accounts = [a \in Accounts |-> None]
          /\ poller = [w \in Pollers |-> NoPoller]

\* The monitor of a poller in the map is the only one that is not canceled.
Monitors ==
    \A w \in Pollers :
        /\ Live(w) \/ poller[w].working # {} => poller[w].account # None
        /\ Live(w) /\ ~poller[w].canceled => accounts[poller[w].account] = w
        /\ poller[w].due # {} =>
              poller[w].fetched # None /\ SentTo[poller[w].fetched] = poller[w].account

\* The pollers that may still give a message to the runtime, or write the file of
\* their deduper without it.
MayHandle(m) ==
    {w \in Pollers : /\ poller[w].account = SentTo[m] /\ m \notin poller[w].seen
                     /\ Live(w) \/ poller[w].working # {} \/ accounts[SentTo[m]] = w}

\* What was handled and what may still be is accounted for.  A message that the file
\* of the deduper lacks was handled once less: whoever wrote the file last, and was
\* able to, did not know the message and may still handle it, or the note of it was
\* dropped.
Handled ==
    \A m \in Messages :
        /\ IsFiniteSet(MayHandle(m))
        /\ handled[m] + Cardinality(MayHandle(m)) <= 1 + paired[SentTo[m]] + dropped[m]
        /\ m \notin seenFile[SentTo[m]] => handled[m] <= paired[SentTo[m]] + dropped[m]

\* Nobody is between the record and the map of the account.
Settled(a) ==
    a \notin deleting /\ \A p \in Pairings : pairing[p].stage = "register" => pairing[p].account # a

Agree(a) ==
    /\ accounts[a] \in Pairings => record[a] = accounts[a]
    /\ accounts[a] = a => record[a] # None \/ a \in Static
    /\ accounts[a] = None => record[a] = None

Agrees == process # "down" => \A a \in Accounts : Settled(a) /\ a \notin unsaved => Agree(a)

AccountInv == TypeOK /\ InMap /\ Hands /\ Quiet /\ Monitors /\ Handled /\ Agrees

-----------------------------------------------------------------------------
(* Handled                                                                 *)

LEMMA MayHandleShrinks ==
    ASSUME TypeOK, Handled, UNCHANGED <<handled, paired, dropped, seenFile>>,
           \A m \in Messages : MayHandle(m)' \subseteq MayHandle(m)
    PROVE  Handled'
<1> SUFFICES ASSUME NEW m \in Messages
             PROVE  /\ IsFiniteSet(MayHandle(m)')
                    /\ handled[m] + Cardinality(MayHandle(m)') <= 1 + paired[SentTo[m]] + dropped[m]
                    /\ m \notin seenFile[SentTo[m]] => handled[m] <= paired[SentTo[m]] + dropped[m]
  BY DEF Handled
<1>1. /\ IsFiniteSet(MayHandle(m))
      /\ handled[m] + Cardinality(MayHandle(m)) <= 1 + paired[SentTo[m]] + dropped[m]
      /\ m \notin seenFile[SentTo[m]] => handled[m] <= paired[SentTo[m]] + dropped[m]
  BY DEF Handled
<1>2. IsFiniteSet(MayHandle(m)') /\ Cardinality(MayHandle(m)') <= Cardinality(MayHandle(m))
  BY <1>1, FS_Subset
<1>3. /\ Cardinality(MayHandle(m)) \in Nat /\ Cardinality(MayHandle(m)') \in Nat
      /\ handled[m] \in Nat /\ paired[SentTo[m]] \in Nat /\ dropped[m] \in Nat
  BY <1>1, <1>2, FS_CardinalityType DEF TypeOK
<1> QED BY <1>1, <1>2, <1>3

\* The poller of one account is replaced, in the map or by a new one, or one poller
\* changes other than by starting to handle messages.
LEMMA OnePoller ==
    ASSUME TypeOK, Handled, UNCHANGED <<handled, paired, dropped, seenFile, accounts>>, NEW w \in Pollers,
           \A v \in Pollers \ {w} : poller'[v] = poller[v],
           \/ /\ poller'[w].account = poller[w].account
              /\ poller[w].seen \subseteq poller'[w].seen
              /\ Live(w)' => Live(w) \/ accounts[poller[w].account] = w
              /\ poller'[w].working = poller[w].working
           \/ ~Live(w)' /\ poller'[w].working = {} /\ \A a \in Accounts : accounts[a] # w
    PROVE  Handled'
<1> SUFFICES ASSUME NEW m \in Messages, NEW v \in Pollers, v \in MayHandle(m)'
             PROVE  v \in MayHandle(m)
  BY MayHandleShrinks DEF MayHandle
<1>1. CASE v # w
  BY <1>1 DEF MayHandle, Live
<1>2. CASE v = w
  BY <1>2 DEF MayHandle, Live
<1> QED BY <1>1, <1>2


-----------------------------------------------------------------------------
(* Pairing                                                                 *)

PairingState == [status : {"none", "wait", "scaned", "confirmed", "expired", "failed"},
                 stage : {"none", "poll", "save", "register", "start", "report", "ended"},
                 account : Accounts \cup {None}]

PollerState == [account : Accounts \cup {None}, monitor : {"none", "live", "stopped"},
                canceled : BOOLEAN, registered : BOOLEAN,
                seen : SUBSET Messages, working : SUBSET Messages, past : SUBSET Messages,
                fetched : Messages \cup {None}, due : SUBSET {"message", "cursor"}]

\* Steps that leave the map, the pollers and the files alone.
LEMMA PairingMoves ==
    ASSUME AccountInv, ~Overlap, NEW p \in Pairings,
           UNCHANGED <<process, accounts, poller, deleting, cursor, seenFile, handled, paired, dropped, starts>>,
           errors' \in 0..MaxErrors, pairing' \in [Pairings -> PairingState],
           \/ UNCHANGED <<record, unsaved>>
           \/ /\ pairing[p].stage = "save" /\ pairing'[p].stage = "ended"
              /\ unsaved' = unsaved \cup {pairing[p].account}
              /\ \E r \in Pairings \cup {None, Torn} : record' = [record EXCEPT ![pairing[p].account] = r],
           \A q \in Pairings \ {p} : pairing'[q] = pairing[q],
           \/ /\ pairing'[p].stage = "poll" /\ pairing'[p].account = None
              /\ pairing[p].stage \in {"none", "poll"} /\ process \notin {"down", "starting"}
           \/ /\ pairing'[p].stage = "save" /\ pairing'[p].account \in Accounts
              /\ ~Busy(pairing'[p].account) /\ pairing[p].stage = "poll"
           \/ /\ pairing'[p].stage = "ended" /\ pairing'[p].account = pairing[p].account
              /\ pairing[p].stage \in {"poll", "save", "start", "report"}
    PROVE  AccountInv'
<1>0. TypeOK /\ InMap /\ Hands /\ Quiet /\ Monitors /\ Handled /\ Agrees
  BY DEF AccountInv
<1>1. TypeOK'
  <2>1. pairing[p].stage = "save" => pairing[p].account \in Accounts
    BY <1>0 DEF Hands, InHand, TypeOK
  <2>2. record \in [Accounts -> Pairings \cup {None, Torn}] /\ unsaved \subseteq Accounts
    BY <1>0 DEF TypeOK
  <2>3. record' \in [Accounts -> Pairings \cup {None, Torn}]
    BY <2>2
  <2>4. unsaved' \subseteq Accounts
    BY <2>1, <2>2
  <2> QED BY <1>0, <2>3, <2>4 DEF TypeOK, PairingState, Live
<1>2. \A a \in Accounts : accounts[a] = p =>
         /\ pairing'[p].stage = "ended"
         /\ pairing'[p].account = pairing[p].account
  BY <1>0 DEF InMap
<1>3. InMap'
  <2> SUFFICES ASSUME NEW a \in Accounts, accounts[a] # None
               PROVE  /\ poller[accounts[a]].account = a
                      /\ accounts[a] \in Accounts => accounts[a] = a
                      /\ accounts[a] \in Pairings =>
                            /\ pairing'[accounts[a]].account = a
                            /\ pairing'[accounts[a]].stage \in {"start", "report", "ended"}
    BY DEF InMap
  <2> QED BY <1>0, <1>2 DEF InMap
<1>4. Hands'
  <2>1. CASE pairing'[p].stage = "poll"
    BY <1>0, <2>1 DEF Hands, InHand
  <2>2. CASE pairing'[p].stage = "save"
    <3>1. \A q \in Pairings : InHand(q) => pairing[q].account # pairing'[p].account
      BY <2>2 DEF Busy, InHand
    <3>2. pairing'[p].account \in Accounts \ deleting
      BY <2>2 DEF Busy
    <3> QED BY <1>0, <2>2, <3>1, <3>2 DEF Hands, InHand
  <2>3. CASE pairing'[p].stage = "ended"
    <3>1. ASSUME NEW q \in Pairings \ {p}, pairing[q].stage = "register" PROVE record'[pairing[q].account] = q
      <4>1. record[pairing[q].account] = q /\ pairing[q].account \in Accounts
        BY <1>0, <3>1 DEF Hands, InHand, TypeOK
      <4>2. pairing[p].stage = "save" => pairing[q].account # pairing[p].account
        BY <1>0, <3>1 DEF Hands, InHand
      <4> QED BY <1>0, <4>1, <4>2 DEF TypeOK
    <3> QED BY <1>0, <2>3, <3>1 DEF Hands, InHand
  <2> QED BY <2>1, <2>2, <2>3
<1>5. Quiet'
  BY <1>0 DEF Quiet, TypeOK, InHand
<1>6. Monitors'
  BY <1>0 DEF Monitors, Live
<1>7. Handled'
  BY <1>0, MayHandleShrinks DEF MayHandle, Live
<1>8. Agrees'
  <2>1. \A a \in Accounts : Settled(a)' => Settled(a)
    BY <1>0 DEF Settled
  <2>2. \A a \in Accounts : a \notin unsaved' => a \notin unsaved /\ record'[a] = record[a]
    BY <1>0 DEF TypeOK
  <2> QED BY <1>0, <2>1, <2>2 DEF Agrees, Agree
<1> QED BY <1>1, <1>3, <1>4, <1>5, <1>6, <1>7, <1>8 DEF AccountInv

LEMMA EndedMoves ==
    ASSUME TypeOK, NEW p \in Pairings, NEW s \in {"confirmed", "expired", "failed", pairing[p].status}, Ended(p, s)
    PROVE  /\ pairing' \in [Pairings -> PairingState]
           /\ pairing'[p].stage = "ended" /\ pairing'[p].account = pairing[p].account
           /\ \A q \in Pairings \ {p} : pairing'[q] = pairing[q]
<1>1. /\ pairing[p] \in PairingState
      /\ pairing[p].status \in {"none", "wait", "scaned", "confirmed", "expired", "failed"}
  BY DEF TypeOK, PairingState
<1>2. pairing' = [pairing EXCEPT ![p] = [pairing[p] EXCEPT !.status = s, !.stage = "ended"]]
  BY <1>1 DEF Ended, TypeOK
<1> QED BY <1>1, <1>2 DEF TypeOK, PairingState

LEMMA CreatePairingInv == ASSUME AccountInv, ~Overlap, NEW p \in Pairings, CreatePairing(p) PROVE AccountInv'
<1>1. TypeOK /\ pairing[p].stage = "none" /\ errors' \in 0..MaxErrors
  BY DEF AccountInv, TypeOK, CreatePairing, NoPairing
<1>2. /\ pairing' \in [Pairings -> PairingState]
      /\ pairing'[p].stage = "poll" /\ pairing'[p].account = None
      /\ \A q \in Pairings \ {p} : pairing'[q] = pairing[q]
  BY <1>1 DEF CreatePairing, TypeOK, PairingState
<1> QED BY <1>1, <1>2, PairingMoves DEF CreatePairing, files, ghosts

LEMMA PollQRStatusInv == ASSUME AccountInv, ~Overlap, NEW p \in Pairings, PollQRStatus(p) PROVE AccountInv'
<1>0. TypeOK /\ Quiet /\ Hands /\ errors' \in 0..MaxErrors /\ pairing[p].stage = "poll"
  BY DEF AccountInv, TypeOK, PollQRStatus
<1>1. pairing[p].account = None /\ process \notin {"down", "starting"}
  BY <1>0 DEF Quiet, Hands
<1>2. ASSUME NEW s \in {"expired", "failed", pairing[p].status}, Ended(p, s) PROVE AccountInv'
  BY <1>0, <1>2, EndedMoves, PairingMoves DEF PollQRStatus, files, ghosts
<1>3. CASE pairing' = [pairing EXCEPT ![p].status = "scaned"]
  <2>1. /\ pairing' \in [Pairings -> PairingState]
        /\ pairing'[p].stage = "poll" /\ pairing'[p].account = None
        /\ \A q \in Pairings \ {p} : pairing'[q] = pairing[q]
    BY <1>0, <1>1, <1>3 DEF TypeOK, PairingState
  <2> QED BY <1>0, <1>1, <2>1, PairingMoves DEF PollQRStatus, files, ghosts
<1> QED BY <1>2, <1>3 DEF PollQRStatus

LEMMA ConfirmedInv ==
    ASSUME AccountInv, ~Overlap, NEW p \in Pairings, NEW a \in Accounts, Confirmed(p, a) PROVE AccountInv'
<1>0. TypeOK /\ errors' \in 0..MaxErrors /\ pairing[p].stage = "poll"
  BY DEF AccountInv, TypeOK, Confirmed
<1>1. /\ pairing[p] \in PairingState
      /\ pairing' = [pairing EXCEPT ![p] = [pairing[p] EXCEPT !.stage = "save", !.account = a]]
  BY <1>0 DEF Confirmed, TypeOK, PairingState
<1>2. /\ pairing' \in [Pairings -> PairingState]
      /\ pairing'[p].stage = "save" /\ pairing'[p].account = a
      /\ \A q \in Pairings \ {p} : pairing'[q] = pairing[q]
  BY <1>0, <1>1 DEF TypeOK, PairingState
<1> QED BY <1>0, <1>2, PairingMoves DEF Confirmed, files, ghosts

LEMMA ReportInv == ASSUME AccountInv, ~Overlap, NEW p \in Pairings, Report(p) PROVE AccountInv'
<1>0. TypeOK /\ errors' \in 0..MaxErrors
  BY DEF AccountInv, TypeOK, Report
<1>1. PICK s \in {"confirmed", "failed"} : Ended(p, s)
  BY DEF Report
<1> QED BY <1>0, <1>1, EndedMoves, PairingMoves DEF Report, files, ghosts

\* A write that fails, or a monitor that is not started, ends the pairing.
LEMMA PairingFails ==
    ASSUME AccountInv, ~Overlap, NEW p \in Pairings, pairing[p].stage \in {"save", "start"}, Ended(p, "failed"),
           errors < MaxErrors, errors' = errors + 1,
           UNCHANGED <<process, accounts, poller, deleting, cursor, seenFile, handled, paired, dropped, starts>>,
           \/ UNCHANGED <<record, unsaved>>
           \/ /\ pairing[p].stage = "save" /\ unsaved' = unsaved \cup {pairing[p].account}
              /\ \E r \in Pairings \cup {None, Torn} : record' = [record EXCEPT ![pairing[p].account] = r]
    PROVE  AccountInv'
<1>0. TypeOK /\ errors' \in 0..MaxErrors
  BY DEF AccountInv, TypeOK
<1> QED BY <1>0, EndedMoves, PairingMoves

LEMMA FreshTyped ==
    ASSUME TypeOK, NEW a \in Accounts
    PROVE  Fresh(a) \in PollerState
BY DEF TypeOK, Fresh, PollerState

LEMMA CanceledIs ==
    ASSUME TypeOK, NEW w \in Pollers
    PROVE  /\ Canceled(w) \in PollerState
           /\ Canceled(w).account = poller[w].account /\ Canceled(w).monitor = poller[w].monitor
           /\ Canceled(w).seen = poller[w].seen /\ Canceled(w).registered = poller[w].registered
           /\ Canceled(w).due = poller[w].due /\ Canceled(w).fetched = poller[w].fetched
           /\ Canceled(w).working = poller[w].working
           /\ Canceled(w).canceled = (poller[w].registered \/ poller[w].canceled)
<1>1. poller[w] \in PollerState
  BY DEF TypeOK, PollerState
<1>2. poller[w].registered \in BOOLEAN /\ poller[w].canceled \in BOOLEAN
  BY <1>1 DEF PollerState
<1>3. CASE poller[w].registered
  BY <1>1, <1>3 DEF Canceled, PollerState
<1>4. CASE ~poller[w].registered
  BY <1>1, <1>2, <1>4 DEF Canceled
<1> QED BY <1>3, <1>4

LEMMA SaveAccountInv == ASSUME AccountInv, ~Overlap, NEW p \in Pairings, SaveAccount(p) PROVE AccountInv'
<1>0. TypeOK /\ InMap /\ Hands /\ Quiet /\ Monitors /\ Handled /\ Agrees /\ pairing[p].stage = "save"
  BY DEF AccountInv, SaveAccount
<1> DEFINE a == pairing[p].account
<1>1. CASE /\ errors < MaxErrors /\ errors' = errors + 1 /\ Ended(p, "failed")
           /\ \E r \in Wreck(record[a], p, Torn) : record' = [record EXCEPT ![a] = r]
           /\ unsaved' = unsaved \cup {a} /\ UNCHANGED poller
  <2>1. a \in Accounts
    BY <1>0 DEF Hands, InHand, TypeOK
  <2>2. Wreck(record[a], p, Torn) \subseteq Pairings \cup {None, Torn}
    BY <1>0, <2>1 DEF Wreck, TypeOK
  <2> QED BY <1>0, <1>1, <2>2, PairingFails DEF SaveAccount
<1>2. ASSUME record' = [record EXCEPT ![a] = p], poller' = [poller EXCEPT ![p] = Fresh(a)],
             pairing' = [pairing EXCEPT ![p].stage = "register"], unsaved' = unsaved \ {a}, UNCHANGED errors
      PROVE  AccountInv'
  <2>0. UNCHANGED <<process, accounts, deleting, cursor, seenFile, handled, paired, dropped, starts>>
    BY DEF SaveAccount
  <2>1. /\ a \in Accounts /\ a \notin deleting /\ InHand(p)
        /\ \A q \in Pairings \ {p} : InHand(q) => pairing[q].account # a
        /\ \A b \in Accounts : accounts[b] # p
    <3>1. pairing[p].account \in Accounts \cup {None} /\ InHand(p)
      BY <1>0 DEF TypeOK, InHand
    <3>2. \A b \in Accounts : accounts[b] # p
      BY <1>0 DEF InMap
    <3> QED BY <1>0, <3>1, <3>2 DEF Hands
  <2>2. /\ poller'[p] = Fresh(a) /\ p \in Pollers /\ \A w \in Pollers \ {p} : poller'[w] = poller[w]
        /\ pairing'[p].stage = "register" /\ pairing'[p].account = a
        /\ \A q \in Pairings \ {p} : pairing'[q] = pairing[q]
        /\ record'[a] = p /\ \A b \in Accounts \ {a} : record'[b] = record[b]
    BY <1>0, <1>2, <2>1 DEF TypeOK
  <2>3. TypeOK'
    <3>1. Fresh(a).monitor = "none"
      BY DEF Fresh
    <3>2. \A w \in Pollers : Live(w)' => poller'[w].registered
      BY <1>0, <2>2, <3>1 DEF Live, TypeOK
    <3>3. record' \in [Accounts -> Pairings \cup {None, Torn}]
      BY <1>0, <1>2, <2>1 DEF TypeOK
    <3>4. pairing' \in [Pairings -> PairingState]
      <4>1. pairing \in [Pairings -> PairingState] /\ pairing[p] \in PairingState
        BY <1>0 DEF TypeOK, PairingState
      <4>2. [pairing[p] EXCEPT !.stage = "register"] \in PairingState
        BY <4>1 DEF PairingState
      <4> QED BY <1>2, <4>1, <4>2
    <3> QED BY <1>0, <1>2, <2>0, <2>1, <1>2, FreshTyped, <3>2, <3>3, <3>4 DEF TypeOK, PollerState, PairingState
  <2>4. InMap'
    BY <1>0, <2>0, <2>1, <2>2 DEF InMap, TypeOK
  <2>5. Hands'
    <3>1. Fresh(a).account = a
      BY DEF Fresh
    <3>2. ASSUME NEW q \in Pairings \ {p}, pairing[q].stage = "register" PROVE record'[pairing[q].account] = q
      BY <1>0, <2>1, <2>2, <3>2 DEF Hands, InHand, TypeOK
    <3> QED BY <1>0, <2>0, <2>1, <2>2, <3>1, <3>2 DEF Hands, InHand
  <2>6. Quiet'
    BY <1>0, <2>0, <2>1, <2>2 DEF Quiet, InHand, TypeOK
  <2>7. Monitors'
    BY <1>0, <2>0, <2>1, <2>2 DEF Monitors, Live, Fresh
  <2>8. Handled'
    BY <1>0, <2>0, <2>1, <2>2, OnePoller DEF Live, Fresh
  <2>9. Agrees'
    <3> SUFFICES ASSUME process # "down", NEW b \in Accounts, Settled(b)', b \notin unsaved' PROVE Agree(b)'
      BY <2>0 DEF Agrees
    <3>1. b # a
      BY <2>2 DEF Settled
    <3>2. Settled(b) /\ b \notin unsaved
      BY <1>0, <1>2, <2>0, <2>2, <3>1 DEF Settled
    <3> QED BY <1>0, <2>0, <2>2, <3>1, <3>2 DEF Agrees, Agree
  <2> QED BY <2>3, <2>4, <2>5, <2>6, <2>7, <2>8, <2>9 DEF AccountInv
<1> QED BY <1>1, <1>2 DEF SaveAccount

-----------------------------------------------------------------------------
(* Steps of one poller                                                     *)

\* What a step of a monitor leaves alone keeps everything but the types and the account
\* of handled messages.
LEMMA PollerMoves ==
    ASSUME AccountInv, process # "down", NEW w \in Pollers,
           UNCHANGED <<process, accounts, pairing, deleting, record, unsaved>>,
           \A v \in Pollers \ {w} : poller'[v] = poller[v],
           poller'[w].account = poller[w].account,
           Live(w)' \/ poller'[w].working # {} => poller[w].account # None,
           Live(w)' /\ ~poller'[w].canceled => accounts[poller[w].account] = w,
           poller'[w].due # {} =>
              poller'[w].fetched # None /\ SentTo[poller'[w].fetched] = poller[w].account
    PROVE  InMap' /\ Hands' /\ Quiet' /\ Monitors' /\ Agrees'
<1>0. InMap /\ Hands /\ Quiet /\ Monitors /\ Agrees
  BY DEF AccountInv
<1>1. \A v \in Pollers : poller'[v].account = poller[v].account
  OBVIOUS
<1>2. InMap'
  <2>1. TypeOK
    BY DEF AccountInv
  <2> QED BY <1>0, <1>1, <2>1 DEF InMap, TypeOK
<1>3. Hands'
  BY <1>0, <1>1 DEF Hands, InHand
<1>4. Quiet'
  BY <1>0 DEF Quiet, InHand
<1>5. Monitors'
  BY <1>0 DEF Monitors, Live
<1>6. Agrees'
  BY <1>0 DEF Agrees, Agree, Settled
<1> QED BY <1>2, <1>3, <1>4, <1>5, <1>6

LEMMA StartAccountInv == ASSUME AccountInv, ~Overlap, NEW p \in Pairings, StartAccount(p) PROVE AccountInv'
<1>0. TypeOK /\ InMap /\ Hands /\ Quiet /\ Monitors /\ Handled /\ Agrees /\ pairing[p].stage = "start"
  BY DEF AccountInv, StartAccount
<1> DEFINE a == pairing[p].account
<1>1. CASE errors < MaxErrors /\ errors' = errors + 1 /\ Ended(p, "failed") /\ UNCHANGED poller
  BY <1>0, <1>1, PairingFails DEF StartAccount, files, ghosts
<1>2. ASSUME poller' = [poller EXCEPT ![p] = Launched(p)],
             pairing' = [pairing EXCEPT ![p].stage = "report"], UNCHANGED errors
      PROVE  AccountInv'
  <2>0. UNCHANGED <<process, accounts, deleting, files, ghosts, starts>>
    BY DEF StartAccount
  <2>1. /\ a \in Accounts /\ InHand(p) /\ poller[p].account = a /\ accounts[a] = p
        /\ process \notin {"down", "starting"}
    <3>1. a \in Accounts \cup {None} /\ InHand(p)
      BY <1>0 DEF TypeOK, InHand
    <3> QED BY <1>0, <3>1 DEF Hands, Quiet
  <2>2. /\ Launched(p) \in PollerState /\ Launched(p).account = a /\ Launched(p).seen = poller[p].seen
        /\ Launched(p).due = poller[p].due /\ Launched(p).fetched = poller[p].fetched
        /\ Launched(p).registered /\ Launched(p).working = poller[p].working
    <3>1. poller[p] \in PollerState
      BY <1>0 DEF TypeOK, PollerState
    <3>2. cursor[poller[p].account] \in SUBSET Messages
      BY <1>0, <2>1 DEF TypeOK
    <3> QED BY <2>1, <3>1, <3>2 DEF Launched, PollerState
  <2>3. /\ poller'[p] = Launched(p) /\ \A w \in Pollers \ {p} : poller'[w] = poller[w]
        /\ pairing'[p].stage = "report" /\ \A q \in Pairings : pairing'[q].account = pairing[q].account
        /\ \A q \in Pairings \ {p} : pairing'[q] = pairing[q]
    BY <1>0, <1>2 DEF TypeOK
  <2>4. TypeOK'
    <3>1. pairing' \in [Pairings -> PairingState]
      <4>1. pairing \in [Pairings -> PairingState] /\ pairing[p] \in PairingState
        BY <1>0 DEF TypeOK, PairingState
      <4>2. [pairing[p] EXCEPT !.stage = "report"] \in PairingState
        BY <4>1 DEF PairingState
      <4> QED BY <1>2, <4>1, <4>2
    <3>2. poller' \in [Pollers -> PollerState]
      BY <1>0, <1>2, <2>2 DEF TypeOK, PollerState
    <3>3. ASSUME NEW w \in Pollers, Live(w)' PROVE poller'[w].registered
      <4>1. CASE w = p
        BY <2>2, <2>3, <4>1
      <4>2. CASE w # p
        BY <1>0, <2>3, <3>3, <4>2 DEF TypeOK, Live
      <4> QED BY <4>1, <4>2
    <3> QED BY <1>0, <1>2, <2>0, <3>1, <3>2, <3>3 DEF TypeOK, PairingState, PollerState, files, ghosts
  <2>5. InMap'
    <3> SUFFICES ASSUME NEW b \in Accounts, accounts[b] # None
                 PROVE  /\ poller'[accounts[b]].account = b
                        /\ accounts[b] \in Accounts => accounts[b] = b
                        /\ accounts[b] \in Pairings =>
                              /\ pairing'[accounts[b]].account = b
                              /\ pairing'[accounts[b]].stage \in {"start", "report", "ended"}
      BY <2>0 DEF InMap
    <3>1. accounts[b] \in Pollers /\ \A w \in Pollers : poller'[w].account = poller[w].account
      BY <1>0, <2>1, <2>2, <2>3 DEF TypeOK
    <3> QED BY <1>0, <2>3, <3>1 DEF InMap
  <2>6. Hands'
    <3>1. \A q \in Pairings : InHand(q)' <=> InHand(q)
      BY <2>1, <2>3 DEF InHand
    <3>2. \A q \in Pairings : poller'[q].account = poller[q].account
      BY <2>1, <2>2, <2>3
    <3>3. UNCHANGED <<accounts, record, deleting>>
      BY <2>0 DEF files
    <3> QED BY <1>0, <2>1, <2>3, <3>1, <3>2, <3>3 DEF Hands
  <2>7. Quiet'
    BY <1>0, <2>0, <2>1, <2>3 DEF Quiet, InHand
  <2>8. Monitors'
    BY <1>0, <2>0, <2>1, <2>2, <2>3 DEF Monitors, Live
  <2>9. Handled'
    BY <1>0, <2>0, <2>1, <2>2, <2>3, OnePoller DEF files, ghosts
  <2>10. Agrees'
    <3>1. \A b \in Accounts : Settled(b)' => Settled(b)
      BY <1>0, <2>0, <2>3 DEF Settled
    <3> QED BY <1>0, <2>0, <3>1 DEF Agrees, Agree, files, ghosts
  <2> QED BY <2>4, <2>5, <2>6, <2>7, <2>8, <2>9, <2>10 DEF AccountInv
<1> QED BY <1>1, <1>2 DEF StartAccount

LEMMA OneMore ==
    ASSUME NEW S, IsFiniteSet(S), NEW T, NEW x, T \subseteq S \cup {x}
    PROVE  /\ IsFiniteSet(T) /\ Cardinality(T) \in Nat /\ Cardinality(S) \in Nat
           /\ Cardinality(T) <= Cardinality(S) + 1
<1>1. /\ IsFiniteSet(S \cup {x})
      /\ Cardinality(S \cup {x}) = IF x \in S THEN Cardinality(S) ELSE Cardinality(S) + 1
  BY FS_AddElement
<1>2. Cardinality(S) \in Nat /\ Cardinality(S \cup {x}) \in Nat
  BY <1>1, FS_CardinalityType
<1>3. Cardinality(S \cup {x}) <= Cardinality(S) + 1
  BY <1>1, <1>2
<1>4. IsFiniteSet(T) /\ Cardinality(T) <= Cardinality(S \cup {x}) /\ Cardinality(T) \in Nat
  BY <1>1, FS_Subset, FS_CardinalityType
<1> QED BY <1>2, <1>3, <1>4

LEMMA RegisterInv == ASSUME AccountInv, NEW p \in Pairings, Register(p) PROVE AccountInv'
<1>0. TypeOK /\ InMap /\ Hands /\ Quiet /\ Monitors /\ Handled /\ Agrees /\ pairing[p].stage = "register"
  BY DEF AccountInv, Register
<1> DEFINE a == pairing[p].account
           old == accounts[a]
           to == IF Running THEN "start" ELSE "report"
<1>1. /\ a \in Accounts /\ a \notin deleting /\ InHand(p) /\ poller[p].account = a /\ record[a] = p
      /\ \A q \in Pairings \ {p} : InHand(q) => pairing[q].account # a
      /\ process \notin {"down", "starting"}
  <2>1. pairing[p].account \in Accounts \cup {None} /\ InHand(p)
    BY <1>0 DEF TypeOK, InHand
  <2> QED BY <1>0, <2>1 DEF Hands, Quiet
<1>2. \A b \in Accounts : accounts[b] # p
  BY <1>0 DEF InMap
<1>3. /\ UNCHANGED <<process, deleting, record, cursor, seenFile, handled, dropped, unsaved, starts, errors>>
      /\ accounts' = [accounts EXCEPT ![a] = p]
      /\ poller' = IF old = None THEN poller ELSE [poller EXCEPT ![old] = Canceled(old)]
      /\ pairing' = [pairing EXCEPT ![p].stage = to]
      /\ paired' = [paired EXCEPT ![a] = @ + 1]
  BY DEF Register, files
<1>4. /\ accounts'[a] = p /\ \A b \in Accounts \ {a} : accounts'[b] = accounts[b]
      /\ pairing'[p].stage \in {"start", "report"} /\ pairing'[p].account = a
      /\ \A q \in Pairings \ {p} : pairing'[q] = pairing[q]
      /\ paired'[a] = paired[a] + 1 /\ \A b \in Accounts \ {a} : paired'[b] = paired[b]
  BY <1>0, <1>1, <1>3 DEF TypeOK
<1>5. /\ \A w \in Pollers : w # old => poller'[w] = poller[w]
      /\ \A w \in Pollers :
            /\ poller'[w].account = poller[w].account /\ poller'[w].monitor = poller[w].monitor
            /\ poller'[w].seen = poller[w].seen /\ poller'[w].registered = poller[w].registered
            /\ poller'[w].due = poller[w].due /\ poller'[w].fetched = poller[w].fetched
            /\ poller'[w].working = poller[w].working
            /\ Live(w) /\ w = old => poller'[w].canceled
            /\ poller[w].canceled => poller'[w].canceled
      /\ poller' \in [Pollers -> PollerState]
  <2>1. CASE old = None
    BY <1>0, <1>3, <2>1 DEF TypeOK, PollerState
  <2>2. CASE old # None
    <3>1. old \in Pollers /\ poller' = [poller EXCEPT ![old] = Canceled(old)]
      BY <1>0, <1>1, <1>3, <2>2 DEF TypeOK
    <3>2. poller'[old] = Canceled(old) /\ \A w \in Pollers \ {old} : poller'[w] = poller[w]
      BY <1>0, <3>1 DEF TypeOK
    <3>3. poller \in [Pollers -> PollerState]
      BY <1>0 DEF TypeOK, PollerState
    <3>4. Live(old) => poller[old].registered
      BY <1>0, <3>1 DEF TypeOK
    <3>5. /\ Canceled(old) \in PollerState
          /\ Canceled(old).account = poller[old].account /\ Canceled(old).monitor = poller[old].monitor
          /\ Canceled(old).seen = poller[old].seen /\ Canceled(old).registered = poller[old].registered
          /\ Canceled(old).due = poller[old].due /\ Canceled(old).fetched = poller[old].fetched
          /\ Canceled(old).working = poller[old].working
          /\ Canceled(old).canceled = (poller[old].registered \/ poller[old].canceled)
      BY <1>0, <3>1, CanceledIs
    <3>6. poller' \in [Pollers -> PollerState]
      BY <3>1, <3>3, <3>5
    <3> HIDE DEF old
    <3> QED BY <3>2, <3>4, <3>5, <3>6
  <2> QED BY <2>1, <2>2
<1>6. TypeOK'
  <2>1. pairing' \in [Pairings -> PairingState]
    <3>1. pairing \in [Pairings -> PairingState] /\ pairing[p] \in PairingState
      BY <1>0 DEF TypeOK, PairingState
    <3>2. [pairing[p] EXCEPT !.stage = to] \in PairingState
      BY <3>1 DEF PairingState
    <3> QED BY <1>3, <3>1, <3>2
  <2>2. \A w \in Pollers : Live(w)' => poller'[w].registered
    BY <1>0, <1>5 DEF TypeOK, Live
  <2>3. accounts' \in [Accounts -> Pollers \cup {None}] /\ paired' \in [Accounts -> Nat]
    BY <1>0, <1>1, <1>3 DEF TypeOK
  <2> QED BY <1>0, <1>3, <1>5, <2>1, <2>2, <2>3 DEF TypeOK, PairingState, PollerState
<1>7. InMap'
  <2> SUFFICES ASSUME NEW b \in Accounts, accounts'[b] # None
               PROVE  /\ poller'[accounts'[b]].account = b
                      /\ accounts'[b] \in Accounts => accounts'[b] = b
                      /\ accounts'[b] \in Pairings =>
                            /\ pairing'[accounts'[b]].account = b
                            /\ pairing'[accounts'[b]].stage \in {"start", "report", "ended"}
    BY DEF InMap
  <2>1. CASE b = a
    BY <1>1, <1>4, <1>5, <2>1
  <2>2. CASE b # a
    <3>1. accounts'[b] = accounts[b] /\ accounts[b] # p /\ accounts[b] \in Pollers
      BY <1>0, <1>2, <1>4, <2>2 DEF TypeOK
    <3>2. /\ poller[accounts[b]].account = b
          /\ accounts[b] \in Accounts => accounts[b] = b
          /\ accounts[b] \in Pairings =>
                /\ pairing[accounts[b]].account = b
                /\ pairing[accounts[b]].stage \in {"start", "report", "ended"}
      BY <1>0, <3>1 DEF InMap
    <3> QED BY <1>4, <1>5, <3>1, <3>2
  <2> QED BY <2>1, <2>2
<1>8. Hands'
  <2> SUFFICES ASSUME NEW q \in Pairings
      PROVE  /\ pairing'[q].stage \in {"none", "poll"} => pairing'[q].account = None
             /\ InHand(q)' => pairing'[q].account # None /\ pairing'[q].account \notin deleting
             /\ pairing'[q].stage \in {"register", "start"} => poller'[q].account = pairing'[q].account
             /\ pairing'[q].stage = "register" => record[pairing'[q].account] = q
             /\ pairing'[q].stage \in {"start", "report"} => accounts'[pairing'[q].account] = q
             /\ InHand(q)' => \A r \in Pairings \ {q} :
                   InHand(r)' => pairing'[r].account # pairing'[q].account
    BY <1>3 DEF Hands
  <2>1. \A r \in Pairings : InHand(r)' <=> InHand(r)
    BY <1>1, <1>4 DEF InHand
  <2>2. \A r \in Pairings : pairing'[r].account = pairing[r].account
    BY <1>4
  <2>3. CASE q = p
    BY <1>1, <1>4, <1>5, <2>1, <2>2, <2>3
  <2>4. CASE q # p
    <3>1. pairing[q].account \in Accounts \cup {None}
      BY <1>0 DEF TypeOK
    <3>2. pairing[q].stage \in {"start", "report"} => pairing[q].account # a /\ pairing[q].account \in Accounts
      BY <1>0, <1>1, <2>4, <3>1 DEF InHand, Hands
    <3>3. poller'[q].account = poller[q].account
      BY <1>5
    <3>4. pairing[q].stage \in {"start", "report"} => accounts'[pairing[q].account] = q
      BY <1>0, <1>4, <3>2 DEF Hands
    <3> QED BY <1>0, <1>4, <2>1, <2>2, <2>4, <3>3, <3>4 DEF Hands
  <2> QED BY <2>3, <2>4
<1>9. Quiet'
  BY <1>0, <1>1, <1>3, <1>4 DEF Quiet
<1>10. Monitors'
  <2> SUFFICES ASSUME NEW w \in Pollers
               PROVE  /\ Live(w)' \/ poller'[w].working # {} => poller'[w].account # None
                      /\ Live(w)' /\ ~poller'[w].canceled => accounts'[poller'[w].account] = w
                      /\ poller'[w].due # {} =>
                            poller'[w].fetched # None /\ SentTo[poller'[w].fetched] = poller'[w].account
    BY DEF Monitors
  <2>1. Live(w) => poller[w].registered /\ poller[w].account \in Accounts
    BY <1>0 DEF Monitors, TypeOK
  <2>2. /\ Live(w) \/ poller[w].working # {} => poller[w].account # None
        /\ Live(w) /\ ~poller[w].canceled => accounts[poller[w].account] = w
        /\ poller[w].due # {} =>
              poller[w].fetched # None /\ SentTo[poller[w].fetched] = poller[w].account
    BY <1>0 DEF Monitors
  <2>3. Live(w)' <=> Live(w)
    BY <1>5 DEF Live
  <2>4. ASSUME Live(w), ~poller'[w].canceled PROVE accounts'[poller'[w].account] = w
    <3>1. w # old /\ accounts[poller[w].account] = w
      BY <1>5, <2>2, <2>4
    <3>2. poller[w].account \in Accounts \ {a}
      BY <2>1, <2>4, <3>1
    <3> QED BY <1>4, <1>5, <3>1, <3>2
  <2> QED BY <1>5, <2>2, <2>3, <2>4
<1>11. Handled'
  <2> SUFFICES ASSUME NEW m \in Messages
               PROVE  /\ IsFiniteSet(MayHandle(m)')
                      /\ handled[m] + Cardinality(MayHandle(m)') <= 1 + paired'[SentTo[m]] + dropped[m]
                      /\ m \notin seenFile[SentTo[m]] => handled[m] <= paired'[SentTo[m]] + dropped[m]
    BY <1>3 DEF Handled
  <2>1. /\ IsFiniteSet(MayHandle(m))
        /\ handled[m] + Cardinality(MayHandle(m)) <= 1 + paired[SentTo[m]] + dropped[m]
        /\ m \notin seenFile[SentTo[m]] => handled[m] <= paired[SentTo[m]] + dropped[m]
        /\ handled[m] \in Nat /\ paired[SentTo[m]] \in Nat /\ dropped[m] \in Nat /\ SentTo[m] \in Accounts
    BY <1>0 DEF Handled, TypeOK
  <2>2. CASE SentTo[m] = a
    <3>1. MayHandle(m)' \subseteq MayHandle(m) \cup {p}
      BY <1>4, <1>5, <2>2 DEF MayHandle, Live
    <3>2. /\ IsFiniteSet(MayHandle(m)') /\ Cardinality(MayHandle(m)') \in Nat
          /\ Cardinality(MayHandle(m)) \in Nat
          /\ Cardinality(MayHandle(m)') <= Cardinality(MayHandle(m)) + 1
      BY <2>1, <3>1, OneMore
    <3>3. paired'[SentTo[m]] = paired[SentTo[m]] + 1
      BY <1>4, <2>2
    <3> QED BY <2>1, <3>2, <3>3
  <2>3. CASE SentTo[m] # a
    <3>1. MayHandle(m)' \subseteq MayHandle(m)
      BY <1>4, <1>5, <2>1, <2>3 DEF MayHandle, Live
    <3> QED BY <1>4, <2>1, <2>3, <3>1, FS_Subset, FS_CardinalityType
  <2> QED BY <2>2, <2>3
<1>12. Agrees'
  <2> SUFFICES ASSUME NEW b \in Accounts, Settled(b)', b \notin unsaved PROVE Agree(b)'
    BY <1>3 DEF Agrees
  <2>1. CASE b = a
    BY <1>1, <1>3, <1>4, <2>1 DEF Agree
  <2>2. CASE b # a
    <3>1. Settled(b)
      BY <1>3, <1>4, <2>2 DEF Settled
    <3> QED BY <1>0, <1>1, <1>3, <1>4, <2>2, <3>1 DEF Agrees, Agree
  <2> QED BY <2>1, <2>2
<1> QED BY <1>6, <1>7, <1>8, <1>9, <1>10, <1>11, <1>12 DEF AccountInv

-----------------------------------------------------------------------------
(* Monitors                                                                *)

\* What a monitor's step leaves of the types.
LEMMA PollerTyped ==
    ASSUME TypeOK, NEW w \in Pollers, NEW x \in PollerState, poller' = [poller EXCEPT ![w] = x],
           x.monitor = "live" => x.registered,
           UNCHANGED <<process, accounts, pairing, deleting, record, paired, unsaved, starts>>,
           cursor' \in [Accounts -> SUBSET Messages], seenFile' \in [Accounts -> SUBSET Messages],
           handled' \in [Messages -> Nat], dropped' \in [Messages -> Nat], errors' \in 0..MaxErrors
    PROVE  /\ TypeOK'
           /\ poller'[w] = x
           /\ \A v \in Pollers \ {w} : poller'[v] = poller[v]
<1>1. poller \in [Pollers -> PollerState]
  BY DEF TypeOK, PollerState
<1>2. /\ poller' \in [Pollers -> PollerState] /\ poller'[w] = x
      /\ \A v \in Pollers \ {w} : poller'[v] = poller[v]
  BY <1>1
<1>3. ASSUME NEW v \in Pollers, Live(v)' PROVE poller'[v].registered
  BY <1>2, <1>3 DEF TypeOK, Live
<1> QED BY <1>2, <1>3 DEF TypeOK, PollerState

LEMMA LiveUp == ASSUME AccountInv, NEW w \in Pollers, Live(w) PROVE process # "down"
BY DEF AccountInv, Quiet, Live, NoPoller

LEMMA FetchInv ==
    ASSUME AccountInv, NEW w \in Pollers, NEW m \in Messages, Fetch(w, m) PROVE AccountInv'
<1>0. TypeOK /\ Monitors /\ Handled /\ Live(w) /\ process # "down" /\ SentTo[m] = poller[w].account
  BY LiveUp DEF AccountInv, Fetch
<1> DEFINE x == [poller[w] EXCEPT !.fetched = m, !.due = {"message", "cursor"}]
<1>1. poller[w] \in PollerState /\ poller' = [poller EXCEPT ![w] = x]
  BY <1>0 DEF TypeOK, PollerState, Fetch
<1>2. /\ x \in PollerState /\ x.account = poller[w].account /\ x.monitor = poller[w].monitor
      /\ x.canceled = poller[w].canceled /\ x.registered = poller[w].registered
      /\ x.seen = poller[w].seen /\ x.fetched = m /\ x.working = poller[w].working
  BY <1>1 DEF PollerState
<1>3. UNCHANGED <<process, accounts, pairing, deleting, files, ghosts, starts, errors>>
  BY DEF Fetch
<1>4. x.monitor = "live" => x.registered
  BY <1>0, <1>2 DEF TypeOK, Live
<1> HIDE DEF x
<1>5. TypeOK' /\ poller'[w] = x /\ \A v \in Pollers \ {w} : poller'[v] = poller[v]
  <2>1. /\ cursor' \in [Accounts -> SUBSET Messages] /\ seenFile' \in [Accounts -> SUBSET Messages]
        /\ handled' \in [Messages -> Nat] /\ dropped' \in [Messages -> Nat] /\ errors' \in 0..MaxErrors
    BY <1>0, <1>3 DEF TypeOK, files, ghosts
  <2> QED BY <1>0, <1>1, <1>2, <1>3, <1>4, <2>1, PollerTyped DEF files, ghosts
<1>6. InMap' /\ Hands' /\ Quiet' /\ Monitors' /\ Agrees'
  BY <1>0, <1>2, <1>3, <1>5, PollerMoves DEF Monitors, Live, files, ghosts
<1>7. Handled'
  BY <1>0, <1>2, <1>3, <1>5, OnePoller DEF Live, files, ghosts
<1> QED BY <1>5, <1>6, <1>7 DEF AccountInv

\* A poller that changes what it knows of messages, and may write its file: what it
\* hands over it comes to know, and what it or its file does not know any more was
\* dropped.
LEMMA OneWriter ==
    ASSUME TypeOK, Handled, NEW w \in Pollers, NEW a \in Accounts, poller[w].account = a,
           UNCHANGED <<accounts, paired>>, handled' \in [Messages -> Nat], dropped' \in [Messages -> Nat],
           \A v \in Pollers \ {w} : poller'[v] = poller[v],
           poller'[w].account = a,
           Live(w)' => Live(w),
           poller'[w].working # {} => Live(w) \/ poller[w].working # {},
           \A b \in Accounts \ {a} : seenFile'[b] = seenFile[b],
           \A m \in Messages :
              \/ handled'[m] = handled[m]
              \/ /\ handled'[m] = handled[m] + 1 /\ SentTo[m] = a /\ Live(w)
                 /\ m \notin poller[w].seen /\ m \in poller'[w].seen,
           \A m \in Messages :
              /\ dropped'[m] >= dropped[m]
              /\ m \in poller[w].seen /\ m \notin poller'[w].seen => dropped'[m] >= dropped[m] + 1,
           \A m \in Messages : m \notin seenFile'[a] =>
              \/ dropped'[m] >= dropped[m] + 1
              \/ m \notin seenFile[a] /\ handled'[m] = handled[m]
              \/ m \notin poller'[w].seen /\ (Live(w) \/ poller[w].working # {})
    PROVE  Handled'
<1> SUFFICES ASSUME NEW m \in Messages
             PROVE  /\ IsFiniteSet(MayHandle(m)')
                    /\ handled'[m] + Cardinality(MayHandle(m)') <= 1 + paired[SentTo[m]] + dropped'[m]
                    /\ m \notin seenFile'[SentTo[m]] => handled'[m] <= paired[SentTo[m]] + dropped'[m]
  BY DEF Handled
<1>1. /\ IsFiniteSet(MayHandle(m))
      /\ handled[m] + Cardinality(MayHandle(m)) <= 1 + paired[SentTo[m]] + dropped[m]
      /\ m \notin seenFile[SentTo[m]] => handled[m] <= paired[SentTo[m]] + dropped[m]
      /\ handled[m] \in Nat /\ paired[SentTo[m]] \in Nat /\ dropped[m] \in Nat /\ SentTo[m] \in Accounts
      /\ handled'[m] \in Nat /\ dropped'[m] \in Nat
  BY DEF Handled, TypeOK
<1>2. Cardinality(MayHandle(m)) \in Nat
  BY <1>1, FS_CardinalityType
<1>3. CASE SentTo[m] # a
  <2>1. MayHandle(m)' \subseteq MayHandle(m)
    BY <1>3 DEF MayHandle, Live
  <2>2. /\ IsFiniteSet(MayHandle(m)') /\ Cardinality(MayHandle(m)') \in Nat
        /\ Cardinality(MayHandle(m)') <= Cardinality(MayHandle(m))
    BY <1>1, <2>1, FS_Subset, FS_CardinalityType
  <2>3. handled'[m] = handled[m] /\ dropped'[m] >= dropped[m] /\ seenFile'[SentTo[m]] = seenFile[SentTo[m]]
    BY <1>1, <1>3
  <2> QED BY <1>1, <1>2, <2>2, <2>3
<1>4. CASE SentTo[m] = a /\ m \in poller[w].seen /\ m \notin poller'[w].seen
  <2>1. MayHandle(m)' \subseteq MayHandle(m) \cup {w}
    BY <1>4 DEF MayHandle, Live
  <2>2. /\ IsFiniteSet(MayHandle(m)') /\ Cardinality(MayHandle(m)') \in Nat
        /\ Cardinality(MayHandle(m)') <= Cardinality(MayHandle(m)) + 1
    BY <1>1, <2>1, OneMore
  <2>3. handled'[m] = handled[m] /\ dropped'[m] >= dropped[m] + 1
    BY <1>4
  <2> QED BY <1>1, <1>2, <2>2, <2>3
<1>5. CASE SentTo[m] = a /\ ~(m \in poller[w].seen /\ m \notin poller'[w].seen)
  <2>1. MayHandle(m)' \subseteq MayHandle(m)
    BY <1>5 DEF MayHandle, Live
  <2>2. /\ IsFiniteSet(MayHandle(m)') /\ Cardinality(MayHandle(m)') \in Nat
        /\ Cardinality(MayHandle(m)') <= Cardinality(MayHandle(m))
    BY <1>1, <2>1, FS_Subset, FS_CardinalityType
  <2>3. dropped'[m] >= dropped[m]
    OBVIOUS
  <2>4. (Live(w) \/ poller[w].working # {}) /\ m \notin poller[w].seen => w \in MayHandle(m)
    BY <1>5 DEF MayHandle
  <2>5. CASE handled'[m] = handled[m]
    <3>1. ASSUME m \notin poller'[w].seen, Live(w) \/ poller[w].working # {}
          PROVE  Cardinality(MayHandle(m)) >= 1
      BY <1>1, <1>2, <1>5, <2>4, <3>1, FS_EmptySet
    <3>2. m \notin seenFile'[a] =>
             \/ dropped'[m] >= dropped[m] + 1
             \/ m \notin seenFile[a]
             \/ Cardinality(MayHandle(m)) >= 1
      BY <3>1
    <3> QED BY <1>1, <1>2, <1>5, <2>2, <2>3, <2>5, <3>2
  <2>6. CASE /\ handled'[m] = handled[m] + 1 /\ Live(w)
             /\ m \notin poller[w].seen /\ m \in poller'[w].seen
    <3>1. w \in MayHandle(m) \ MayHandle(m)'
      BY <2>4, <2>6 DEF MayHandle
    <3>2. /\ Cardinality(MayHandle(m) \ {w}) = Cardinality(MayHandle(m)) - 1
          /\ IsFiniteSet(MayHandle(m) \ {w})
      BY <1>1, <3>1, FS_RemoveElement
    <3>3. Cardinality(MayHandle(m)') <= Cardinality(MayHandle(m) \ {w})
      BY <2>1, <3>1, <3>2, FS_Subset
    <3>4. m \notin seenFile'[a] => dropped'[m] >= dropped[m] + 1
      BY <1>1, <2>6
    <3> QED BY <1>1, <1>2, <1>5, <2>2, <2>3, <2>6, <3>2, <3>3, <3>4
  <2> QED BY <2>5, <2>6
<1> QED BY <1>3, <1>4, <1>5

\* What a write of the deduper's file leaves, whether it fails or not.
LEMMA PersistIs ==
    ASSUME TypeOK, NEW w \in Pollers, NEW a \in Accounts, poller[w].account = a,
           NEW seen \in SUBSET Messages, Persist(w, seen)
    PROVE  /\ seenFile' \in [Accounts -> SUBSET Messages] /\ dropped' \in [Messages -> Nat]
           /\ errors' \in 0..MaxErrors
           /\ \A b \in Accounts \ {a} : seenFile'[b] = seenFile[b]
           /\ \A m \in Messages :
                 /\ dropped'[m] >= dropped[m]
                 /\ m \in poller[w].seen /\ m \notin seen => dropped'[m] >= dropped[m] + 1
                 /\ m \notin seenFile'[a] => m \notin seen \/ dropped'[m] >= dropped[m] + 1
<1> DEFINE dropping == (poller[w].seen \cup seen) \ (seen \cap seenFile'[a])
<1>1. PICK f \in SUBSET Messages : seenFile' = [seenFile EXCEPT ![a] = f]
  BY DEF Persist, Wreck, TypeOK
<1>2. errors' \in 0..MaxErrors
  BY DEF Persist, TypeOK
<1>3. dropped' = [m \in Messages |-> IF m \in dropping THEN dropped[m] + 1 ELSE dropped[m]]
  BY DEF Persist
<1>4. dropped \in [Messages -> Nat]
  BY DEF TypeOK
<1>5. \A m \in Messages : dropped'[m] = (IF m \in dropping THEN dropped[m] + 1 ELSE dropped[m]) /\ dropped[m] \in Nat
  BY <1>3, <1>4
<1>6. seenFile' \in [Accounts -> SUBSET Messages] /\ \A b \in Accounts \ {a} : seenFile'[b] = seenFile[b]
  BY <1>1 DEF TypeOK
<1>7. dropped' \in [Messages -> Nat]
  <2> HIDE DEF dropping
  <2> QED BY <1>3, <1>4
<1>8. ASSUME NEW m \in Messages
      PROVE  /\ dropped'[m] >= dropped[m]
             /\ m \in poller[w].seen /\ m \notin seen => dropped'[m] >= dropped[m] + 1
             /\ m \notin seenFile'[a] => m \notin seen \/ dropped'[m] >= dropped[m] + 1
  <2>1. /\ m \in poller[w].seen /\ m \notin seen => m \in dropping
        /\ m \notin seenFile'[a] /\ m \in seen => m \in dropping
    OBVIOUS
  <2> HIDE DEF dropping
  <2> QED BY <1>5, <2>1
<1> QED BY <1>2, <1>6, <1>7, <1>8

LEMMA HandleMessageInv == ASSUME AccountInv, NEW w \in Pollers, HandleMessage(w) PROVE AccountInv'
<1>0. TypeOK /\ Monitors /\ Handled /\ Live(w) /\ process # "down" /\ "message" \in poller[w].due
  BY LiveUp DEF AccountInv, HandleMessage
<1> DEFINE m == poller[w].fetched
           a == poller[w].account
           new == {m} \ poller[w].seen
           x == [poller[w] EXCEPT !.due = @ \ {"message"}, !.seen = @ \cup {m}, !.working = @ \cup new]
<1>1. poller[w] \in PollerState /\ poller' = [poller EXCEPT ![w] = x]
  BY <1>0 DEF TypeOK, PollerState, HandleMessage
<1>2. m \in Messages /\ a \in Accounts /\ SentTo[m] = a
  BY <1>0, <1>1 DEF Monitors, PollerState
<1>3. /\ x \in PollerState /\ x.account = a /\ x.monitor = poller[w].monitor
      /\ x.canceled = poller[w].canceled /\ x.registered = poller[w].registered
      /\ x.seen = poller[w].seen \cup {m} /\ x.fetched = m
  BY <1>1, <1>2 DEF PollerState
<1>4. x.monitor = "live" => x.registered
  BY <1>0, <1>3 DEF TypeOK, Live
<1> HIDE DEF x
<1>5. /\ UNCHANGED <<process, accounts, pairing, deleting, record, cursor, paired, unsaved, starts>>
      /\ Persist(w, poller[w].seen \cup {m})
      /\ handled' = [n \in Messages |-> IF n \in new THEN handled[n] + 1 ELSE handled[n]]
  BY DEF HandleMessage
<1>6. poller'[w] = x
  BY <1>0, <1>1 DEF TypeOK
<1>7. poller[w].seen \cup {m} \in SUBSET Messages
  BY <1>1, <1>2 DEF PollerState
<1>8. /\ handled' \in [Messages -> Nat]
      /\ \A n \in Messages : \/ handled'[n] = handled[n]
                             \/ n = m /\ m \notin poller[w].seen /\ handled'[n] = handled[n] + 1
  BY <1>0, <1>5 DEF TypeOK
<1>9. /\ seenFile' \in [Accounts -> SUBSET Messages] /\ dropped' \in [Messages -> Nat]
      /\ errors' \in 0..MaxErrors
      /\ \A b \in Accounts \ {a} : seenFile'[b] = seenFile[b]
      /\ \A n \in Messages :
            /\ dropped'[n] >= dropped[n]
            /\ n \in poller[w].seen /\ n \notin x.seen => dropped'[n] >= dropped[n] + 1
            /\ n \notin seenFile'[a] => n \notin x.seen \/ dropped'[n] >= dropped[n] + 1
  BY <1>0, <1>2, <1>3, <1>5, <1>7, PersistIs
<1>10. TypeOK' /\ \A v \in Pollers \ {w} : poller'[v] = poller[v]
  BY <1>0, <1>1, <1>3, <1>4, <1>5, <1>8, <1>9, PollerTyped DEF TypeOK
<1>11. InMap' /\ Hands' /\ Quiet' /\ Monitors' /\ Agrees'
  BY <1>0, <1>2, <1>3, <1>5, <1>6, <1>10, PollerMoves DEF Monitors, Live
<1>12. Handled'
  <2>1. Live(w)' => Live(w)
    BY <1>3, <1>6 DEF Live
  <2> QED BY <1>0, <1>2, <1>3, <1>5, <1>6, <1>8, <1>9, <1>10, <2>1, OneWriter
<1> QED BY <1>10, <1>11, <1>12 DEF AccountInv

LEMMA SettleInv ==
    ASSUME AccountInv, NEW w \in Pollers, NEW m \in Messages, Settle(w, m) PROVE AccountInv'
<1>0. TypeOK /\ Monitors /\ Handled /\ m \in poller[w].working /\ process # "down"
  BY DEF AccountInv, Settle, Quiet, NoPoller
<1>1. PICK seen \in {poller[w].seen \cup {m}, poller[w].seen \ {m}} :
         /\ poller' = [poller EXCEPT ![w].working = @ \ {m}, ![w].seen = seen]
         /\ Persist(w, seen)
  BY DEF Settle
<1> DEFINE a == poller[w].account
           x == [poller[w] EXCEPT !.working = @ \ {m}, !.seen = seen]
<1>2. poller[w] \in PollerState /\ poller' = [poller EXCEPT ![w] = x] /\ a \in Accounts
  BY <1>0, <1>1 DEF TypeOK, PollerState, Monitors
<1>3. seen \in SUBSET Messages
  BY <1>2 DEF PollerState
<1>4. /\ x \in PollerState /\ x.account = a /\ x.monitor = poller[w].monitor
      /\ x.canceled = poller[w].canceled /\ x.registered = poller[w].registered
      /\ x.seen = seen /\ x.fetched = poller[w].fetched /\ x.due = poller[w].due
  BY <1>2, <1>3 DEF PollerState
<1>5. x.monitor = "live" => x.registered
  BY <1>0, <1>4 DEF TypeOK, Live
<1> HIDE DEF x
<1>6. UNCHANGED <<process, accounts, pairing, deleting, record, cursor, handled, paired, unsaved, starts>>
  BY DEF Settle
<1>7. poller'[w] = x
  BY <1>0, <1>2 DEF TypeOK
<1>8. /\ seenFile' \in [Accounts -> SUBSET Messages] /\ dropped' \in [Messages -> Nat]
      /\ errors' \in 0..MaxErrors
      /\ \A b \in Accounts \ {a} : seenFile'[b] = seenFile[b]
      /\ \A n \in Messages :
            /\ dropped'[n] >= dropped[n]
            /\ n \in poller[w].seen /\ n \notin x.seen => dropped'[n] >= dropped[n] + 1
            /\ n \notin seenFile'[a] => n \notin x.seen \/ dropped'[n] >= dropped[n] + 1
  BY <1>0, <1>1, <1>2, <1>3, <1>4, PersistIs
<1>9. TypeOK' /\ \A v \in Pollers \ {w} : poller'[v] = poller[v]
  BY <1>0, <1>2, <1>4, <1>5, <1>6, <1>8, PollerTyped DEF TypeOK
<1>10. InMap' /\ Hands' /\ Quiet' /\ Monitors' /\ Agrees'
  BY <1>0, <1>2, <1>4, <1>6, <1>7, <1>9, PollerMoves DEF Monitors, Live
<1>11. Handled'
  <2>1. Live(w)' => Live(w)
    BY <1>4, <1>7 DEF Live
  <2>2. handled' \in [Messages -> Nat]
    BY <1>0, <1>6 DEF TypeOK
  <2> QED BY <1>0, <1>2, <1>4, <1>6, <1>7, <1>8, <1>9, <2>1, <2>2, OneWriter
<1> QED BY <1>9, <1>10, <1>11 DEF AccountInv

LEMMA ExpireInv ==
    ASSUME AccountInv, NEW w \in Pollers, NEW m \in Messages, Expire(w, m) PROVE AccountInv'
<1>0. TypeOK /\ InMap /\ Monitors /\ Handled /\ m \in poller[w].seen /\ process # "down"
  BY DEF AccountInv, Expire, Quiet, NoPoller
<1> DEFINE x == [poller[w] EXCEPT !.seen = @ \ {m}]
<1>1. poller[w] \in PollerState /\ poller' = [poller EXCEPT ![w] = x]
  BY <1>0 DEF TypeOK, PollerState, Expire
<1>2. /\ x \in PollerState /\ x.account = poller[w].account /\ x.monitor = poller[w].monitor
      /\ x.canceled = poller[w].canceled /\ x.registered = poller[w].registered
      /\ x.seen = poller[w].seen \ {m} /\ x.fetched = poller[w].fetched /\ x.due = poller[w].due
      /\ x.working = poller[w].working
  BY <1>1 DEF PollerState
<1>3. x.monitor = "live" => x.registered
  BY <1>0, <1>2 DEF TypeOK, Live
<1> HIDE DEF x
<1>4. /\ UNCHANGED <<process, accounts, pairing, deleting, files, handled, paired, unsaved, starts, errors>>
      /\ dropped' = [dropped EXCEPT ![m] = @ + 1]
  BY DEF Expire
<1>5. poller'[w] = x
  BY <1>0, <1>1 DEF TypeOK
<1>6. /\ dropped' \in [Messages -> Nat] /\ dropped'[m] = dropped[m] + 1
      /\ \A n \in Messages : dropped'[n] >= dropped[n]
  BY <1>0, <1>4 DEF TypeOK
<1>7. TypeOK' /\ \A v \in Pollers \ {w} : poller'[v] = poller[v]
  <2>1. /\ cursor' \in [Accounts -> SUBSET Messages] /\ seenFile' \in [Accounts -> SUBSET Messages]
        /\ handled' \in [Messages -> Nat] /\ errors' \in 0..MaxErrors
    BY <1>0, <1>4 DEF TypeOK, files
  <2> QED BY <1>0, <1>1, <1>2, <1>3, <1>4, <1>6, <2>1, PollerTyped DEF files
<1>8. InMap' /\ Hands' /\ Quiet' /\ Monitors' /\ Agrees'
  BY <1>0, <1>2, <1>4, <1>5, <1>7, PollerMoves DEF Monitors, Live, files
<1>9. Handled'
  <2>1. CASE poller[w].account = None
    <3> SUFFICES ASSUME NEW n \in Messages
                 PROVE  /\ IsFiniteSet(MayHandle(n)')
                        /\ handled[n] + Cardinality(MayHandle(n)') <= 1 + paired[SentTo[n]] + dropped'[n]
                        /\ n \notin seenFile[SentTo[n]] => handled[n] <= paired[SentTo[n]] + dropped'[n]
      BY <1>4 DEF Handled, files
    <3>1. /\ IsFiniteSet(MayHandle(n))
          /\ handled[n] + Cardinality(MayHandle(n)) <= 1 + paired[SentTo[n]] + dropped[n]
          /\ n \notin seenFile[SentTo[n]] => handled[n] <= paired[SentTo[n]] + dropped[n]
          /\ handled[n] \in Nat /\ paired[SentTo[n]] \in Nat /\ dropped[n] \in Nat /\ SentTo[n] \in Accounts
          /\ dropped'[n] \in Nat /\ dropped'[n] >= dropped[n]
      BY <1>0, <1>6 DEF Handled, TypeOK
    <3>2. MayHandle(n)' = MayHandle(n)
      BY <1>2, <1>4, <1>5, <1>7, <2>1, <3>1 DEF MayHandle, Live
    <3> QED BY <3>1, <3>2, FS_CardinalityType
  <2>2. CASE poller[w].account # None
    <3>1. poller[w].account \in Accounts /\ handled' \in [Messages -> Nat] /\ (Live(w)' => Live(w))
      BY <1>0, <1>1, <1>2, <1>4, <1>5, <2>2 DEF PollerState, TypeOK, Live
    <3>2. \A n \in Messages : n \in poller[w].seen /\ n \notin x.seen => n = m
      BY <1>2
    <3> QED BY <1>0, <1>2, <1>4, <1>5, <1>6, <1>7, <3>1, <3>2, OneWriter DEF files
  <2> QED BY <2>1, <2>2
<1> QED BY <1>7, <1>8, <1>9 DEF AccountInv

LEMMA ExpireOnDiskInv ==
    ASSUME AccountInv, NEW a \in Accounts, NEW m \in Messages, ExpireOnDisk(a, m) PROVE AccountInv'
<1>0. TypeOK /\ InMap /\ Hands /\ Quiet /\ Monitors /\ Handled /\ Agrees
  BY DEF AccountInv
<1>1. /\ UNCHANGED <<process, accounts, poller, pairing, deleting, record, cursor, handled, paired, unsaved,
                     starts, errors>>
      /\ seenFile' = [seenFile EXCEPT ![a] = @ \ {m}] /\ dropped' = [dropped EXCEPT ![m] = @ + 1]
  BY DEF ExpireOnDisk
<1>2. seenFile' \in [Accounts -> SUBSET Messages] /\ dropped' \in [Messages -> Nat]
  BY <1>0, <1>1 DEF TypeOK
<1>3. TypeOK'
  BY <1>0, <1>1, <1>2 DEF TypeOK, Live
<1>4. InMap' /\ Hands' /\ Quiet' /\ Monitors' /\ Agrees'
  BY <1>0, <1>1 DEF InMap, Hands, InHand, Quiet, Monitors, Live, Agrees, Agree, Settled
<1>5. Handled'
  <2> SUFFICES ASSUME NEW n \in Messages
               PROVE  /\ IsFiniteSet(MayHandle(n)')
                      /\ handled[n] + Cardinality(MayHandle(n)') <= 1 + paired[SentTo[n]] + dropped'[n]
                      /\ n \notin seenFile'[SentTo[n]] => handled[n] <= paired[SentTo[n]] + dropped'[n]
    BY <1>1 DEF Handled
  <2>1. /\ IsFiniteSet(MayHandle(n))
        /\ handled[n] + Cardinality(MayHandle(n)) <= 1 + paired[SentTo[n]] + dropped[n]
        /\ n \notin seenFile[SentTo[n]] => handled[n] <= paired[SentTo[n]] + dropped[n]
        /\ handled[n] \in Nat /\ paired[SentTo[n]] \in Nat /\ dropped[n] \in Nat /\ SentTo[n] \in Accounts
    BY <1>0 DEF Handled, TypeOK
  <2>2. MayHandle(n)' = MayHandle(n) /\ Cardinality(MayHandle(n)) \in Nat
    BY <1>1, <2>1, FS_CardinalityType DEF MayHandle, Live
  <2>3. /\ dropped'[n] \in Nat /\ dropped'[n] >= dropped[n]
        /\ n = m => dropped'[n] = dropped[n] + 1
        /\ n # m /\ n \notin seenFile'[SentTo[n]] => n \notin seenFile[SentTo[n]]
    BY <1>0, <1>1, <2>1 DEF TypeOK
  <2> QED BY <2>1, <2>2, <2>3
<1> QED BY <1>3, <1>4, <1>5 DEF AccountInv

LEMMA SaveSyncBufInv == ASSUME AccountInv, NEW w \in Pollers, SaveSyncBuf(w) PROVE AccountInv'
<1>0. TypeOK /\ Monitors /\ Handled /\ Live(w) /\ process # "down" /\ "cursor" \in poller[w].due
  BY LiveUp DEF AccountInv, SaveSyncBuf
<1> DEFINE past == poller[w].past \cup {poller[w].fetched}
           x == [poller[w] EXCEPT !.due = @ \ {"cursor"}, !.past = past]
<1>1. poller[w] \in PollerState /\ poller' = [poller EXCEPT ![w] = x]
  BY <1>0 DEF TypeOK, PollerState, SaveSyncBuf
<1>2. poller[w].fetched \in Messages /\ poller[w].account \in Accounts
  BY <1>0, <1>1 DEF Monitors, PollerState
<1>3. /\ x \in PollerState /\ x.account = poller[w].account /\ x.monitor = poller[w].monitor
      /\ x.canceled = poller[w].canceled /\ x.registered = poller[w].registered
      /\ x.seen = poller[w].seen /\ x.fetched = poller[w].fetched /\ past \in SUBSET Messages
      /\ x.working = poller[w].working
  BY <1>1, <1>2 DEF PollerState
<1>4. x.monitor = "live" => x.registered
  BY <1>0, <1>3 DEF TypeOK, Live
<1> HIDE DEF x
<1>5. /\ UNCHANGED <<process, accounts, pairing, deleting, record, seenFile, ghosts, starts>>
      /\ UNCHANGED errors \/ (errors < MaxErrors /\ errors' = errors + 1)
      /\ \E c \in {past, cursor[poller[w].account], {}} : cursor' = [cursor EXCEPT ![poller[w].account] = c]
  BY DEF SaveSyncBuf, Wreck
<1>6. poller'[w] = x
  BY <1>0, <1>1 DEF TypeOK
<1>7. cursor' \in [Accounts -> SUBSET Messages] /\ errors' \in 0..MaxErrors
  <2>1. cursor \in [Accounts -> SUBSET Messages] /\ errors \in 0..MaxErrors
    BY <1>0 DEF TypeOK
  <2> HIDE DEF past
  <2> QED BY <1>2, <1>3, <1>5, <2>1
<1>8. TypeOK' /\ \A v \in Pollers \ {w} : poller'[v] = poller[v]
  <2>1. seenFile' \in [Accounts -> SUBSET Messages] /\ handled' \in [Messages -> Nat] /\ dropped' \in [Messages -> Nat]
    BY <1>0, <1>5 DEF TypeOK, ghosts
  <2> QED BY <1>0, <1>1, <1>3, <1>4, <1>5, <1>7, <2>1, PollerTyped DEF ghosts
<1>9. InMap' /\ Hands' /\ Quiet' /\ Monitors' /\ Agrees'
  <2>1. poller[w].fetched # None /\ SentTo[poller[w].fetched] = poller[w].account
    BY <1>0 DEF Monitors
  <2> QED BY <1>0, <1>2, <1>3, <1>5, <1>6, <1>8, <2>1, PollerMoves DEF Monitors, Live, ghosts
<1>10. Handled'
  BY <1>0, <1>3, <1>5, <1>6, <1>8, OnePoller DEF Live, ghosts
<1> QED BY <1>8, <1>9, <1>10 DEF AccountInv

LEMMA MonitorEndsInv ==
    ASSUME AccountInv, NEW w \in Pollers, MonitorStops(w) \/ MonitorFails(w) PROVE AccountInv'
<1>0. TypeOK /\ Monitors /\ Handled /\ Live(w) /\ process # "down"
  BY LiveUp DEF AccountInv, MonitorStops, MonitorFails
<1>1. poller[w] \in PollerState
  BY <1>0 DEF TypeOK, PollerState
<1>2. PICK x \in PollerState : /\ poller' = [poller EXCEPT ![w] = x]
                               /\ x.account = poller[w].account /\ x.monitor = "stopped"
                               /\ x.seen = poller[w].seen /\ x.due = {}
                               /\ x.working = poller[w].working
  <2>1. CASE MonitorStops(w)
    <3> DEFINE x == [poller[w] EXCEPT !.monitor = "stopped", !.registered = FALSE, !.fetched = None, !.due = {}]
    <3>1. x \in PollerState /\ poller' = [poller EXCEPT ![w] = x]
      BY <1>0, <1>1, <2>1 DEF MonitorStops, PollerState, TypeOK
    <3> QED BY <1>1, <3>1 DEF PollerState
  <2>2. CASE MonitorFails(w)
    <3> DEFINE x == [poller[w] EXCEPT !.monitor = "stopped", !.fetched = None, !.due = {}]
    <3>1. x \in PollerState /\ poller' = [poller EXCEPT ![w] = x]
      BY <1>0, <1>1, <2>2 DEF MonitorFails, PollerState, TypeOK
    <3> QED BY <1>1, <3>1 DEF PollerState
  <2> QED BY <2>1, <2>2
<1>3. /\ UNCHANGED <<process, accounts, pairing, deleting, files, ghosts, starts>>
      /\ errors' \in 0..MaxErrors
  BY <1>0 DEF MonitorStops, MonitorFails, TypeOK
<1>4. TypeOK' /\ poller'[w] = x /\ \A v \in Pollers \ {w} : poller'[v] = poller[v]
  <2>1. /\ cursor' \in [Accounts -> SUBSET Messages] /\ seenFile' \in [Accounts -> SUBSET Messages]
        /\ handled' \in [Messages -> Nat] /\ dropped' \in [Messages -> Nat]
    BY <1>0, <1>3 DEF TypeOK, files, ghosts
  <2> QED BY <1>0, <1>2, <1>3, <2>1, PollerTyped DEF files, ghosts
<1>5. InMap' /\ Hands' /\ Quiet' /\ Monitors' /\ Agrees'
  BY <1>0, <1>2, <1>3, <1>4, PollerMoves DEF Monitors, Live, files, ghosts
<1>6. Handled'
  BY <1>0, <1>2, <1>3, <1>4, OnePoller DEF Live, files, ghosts
<1> QED BY <1>4, <1>5, <1>6 DEF AccountInv

-----------------------------------------------------------------------------
(* Deletion                                                                *)

LEMMA DeleteAccountInv == ASSUME AccountInv, ~Overlap, NEW a \in Accounts, DeleteAccount(a) PROVE AccountInv'
<1>0. TypeOK /\ InMap /\ Hands /\ Quiet /\ Monitors /\ Handled /\ Agrees
  BY DEF AccountInv
<1> DEFINE w == accounts[a]
<1>1. /\ process = "up" /\ w # None /\ ~Busy(a) /\ w \in Pollers
      /\ accounts' = [accounts EXCEPT ![a] = None]
      /\ poller' = [poller EXCEPT ![w] = Canceled(w)]
      /\ deleting' = deleting \cup {a}
      /\ UNCHANGED <<process, pairing, files, ghosts, starts, errors>>
  BY <1>0 DEF DeleteAccount, TypeOK
<1>2. poller[w].account = a
  BY <1>0, <1>1 DEF InMap
<1>3. accounts'[a] = None /\ \A b \in Accounts \ {a} : accounts'[b] = accounts[b]
  BY <1>0, <1>1 DEF TypeOK
<1>4. \A p \in Pairings : InHand(p) => pairing[p].account # a
  BY <1>1 DEF Busy, InHand
<1>5. /\ Canceled(w) \in PollerState
      /\ Canceled(w).account = poller[w].account /\ Canceled(w).monitor = poller[w].monitor
      /\ Canceled(w).seen = poller[w].seen /\ Canceled(w).registered = poller[w].registered
      /\ Canceled(w).due = poller[w].due /\ Canceled(w).fetched = poller[w].fetched
      /\ Canceled(w).working = poller[w].working
      /\ Canceled(w).canceled = (poller[w].registered \/ poller[w].canceled)
  BY <1>0, <1>1, CanceledIs
<1>6. poller'[w] = Canceled(w) /\ \A v \in Pollers \ {w} : poller'[v] = poller[v]
  BY <1>0, <1>1 DEF TypeOK
<1>7. Live(w) => poller'[w].canceled
  BY <1>0, <1>1, <1>5, <1>6 DEF TypeOK
<1>8. /\ poller' \in [Pollers -> PollerState]
      /\ \A v \in Pollers :
            /\ poller'[v].account = poller[v].account /\ poller'[v].monitor = poller[v].monitor
            /\ poller'[v].seen = poller[v].seen /\ poller'[v].registered = poller[v].registered
            /\ poller'[v].due = poller[v].due /\ poller'[v].fetched = poller[v].fetched
            /\ poller'[v].working = poller[v].working
  <2>1. poller \in [Pollers -> PollerState]
    BY <1>0 DEF TypeOK, PollerState
  <2> HIDE DEF w
  <2> QED BY <1>1, <1>5, <1>6, <2>1
<1> HIDE DEF w
<1>9. TypeOK'
  <2>1. \A v \in Pollers : Live(v)' => poller'[v].registered
    BY <1>0, <1>8 DEF TypeOK, Live
  <2>2. accounts' \in [Accounts -> Pollers \cup {None}]
    BY <1>0, <1>1 DEF TypeOK
  <2> QED BY <1>0, <1>1, <1>8, <2>1, <2>2 DEF TypeOK, PollerState, files, ghosts
<1>10. InMap'
  <2> SUFFICES ASSUME NEW b \in Accounts, accounts'[b] # None
               PROVE  /\ poller'[accounts'[b]].account = b
                      /\ accounts'[b] \in Accounts => accounts'[b] = b
                      /\ accounts'[b] \in Pairings =>
                            /\ pairing'[accounts'[b]].account = b
                            /\ pairing'[accounts'[b]].stage \in {"start", "report", "ended"}
    BY DEF InMap
  <2>1. b # a /\ accounts'[b] = accounts[b] /\ accounts[b] \in Pollers
    BY <1>0, <1>3 DEF TypeOK
  <2> QED BY <1>0, <1>1, <1>8, <2>1 DEF InMap
<1>11. Hands'
  <2>1. \A p \in Pairings : pairing[p].stage \in {"start", "report"} => accounts'[pairing[p].account] = p
    <3> SUFFICES ASSUME NEW p \in Pairings, pairing[p].stage \in {"start", "report"}
                 PROVE  accounts'[pairing[p].account] = p
      OBVIOUS
    <3>1. pairing[p].account \in Accounts \ {a} /\ accounts[pairing[p].account] = p
      BY <1>0, <1>4 DEF Hands, InHand, TypeOK
    <3> QED BY <1>3, <3>1
  <2> QED BY <1>0, <1>1, <1>4, <1>8, <2>1 DEF Hands, InHand, files
<1>12. Quiet'
  BY <1>0, <1>1, <1>3 DEF Quiet, TypeOK
<1>13. Monitors'
  <2> SUFFICES ASSUME NEW v \in Pollers
               PROVE  /\ Live(v)' \/ poller'[v].working # {} => poller'[v].account # None
                      /\ Live(v)' /\ ~poller'[v].canceled => accounts'[poller'[v].account] = v
                      /\ poller'[v].due # {} =>
                            poller'[v].fetched # None /\ SentTo[poller'[v].fetched] = poller'[v].account
    BY DEF Monitors
  <2>1. /\ Live(v)' <=> Live(v)
        /\ Live(v) => poller[v].account \in Accounts
    BY <1>0, <1>8 DEF Live, Monitors, TypeOK
  <2>2. ASSUME Live(v), ~poller'[v].canceled PROVE accounts'[poller[v].account] = v
    <3>1. v # w /\ accounts[poller[v].account] = v
      BY <1>0, <1>6, <1>7, <2>2 DEF Monitors
    <3>2. poller[v].account # a
      BY <3>1 DEF w
    <3> QED BY <1>3, <2>1, <2>2, <3>1, <3>2
  <2> QED BY <1>0, <1>8, <2>1, <2>2 DEF Monitors
<1>14. Handled'
  <2>1. \A m \in Messages : MayHandle(m)' \subseteq MayHandle(m)
    BY <1>3, <1>8 DEF MayHandle, Live
  <2> QED BY <1>0, <1>1, <2>1, MayHandleShrinks DEF files, ghosts
<1>15. Agrees'
  <2> SUFFICES ASSUME NEW b \in Accounts, Settled(b)', b \notin unsaved PROVE Agree(b)'
    BY <1>1 DEF Agrees, ghosts
  <2>1. b # a /\ Settled(b)
    BY <1>1 DEF Settled
  <2> QED BY <1>0, <1>1, <1>3, <2>1 DEF Agrees, Agree, files, ghosts
<1> QED BY <1>9, <1>10, <1>11, <1>12, <1>13, <1>14, <1>15 DEF AccountInv

LEMMA RemoveRecordInv == ASSUME AccountInv, NEW a \in Accounts, RemoveRecord(a) PROVE AccountInv'
<1>0. TypeOK /\ InMap /\ Hands /\ Quiet /\ Monitors /\ Handled /\ Agrees
  BY DEF AccountInv
<1>1. /\ a \in deleting /\ deleting' = deleting \ {a} /\ accounts[a] = None
      /\ UNCHANGED <<process, accounts, poller, pairing, cursor, seenFile, handled, paired, dropped, starts>>
      /\ \/ record' = [record EXCEPT ![a] = None] /\ unsaved' = unsaved \ {a} /\ UNCHANGED errors
         \/ errors < MaxErrors /\ errors' = errors + 1 /\ unsaved' = unsaved \cup {a} /\ UNCHANGED record
  BY <1>0 DEF RemoveRecord, Quiet
<1>2. /\ \A b \in Accounts \ {a} : record'[b] = record[b] /\ (b \in unsaved' <=> b \in unsaved)
      /\ record'[a] = None \/ a \in unsaved'
  BY <1>0, <1>1 DEF TypeOK
<1>3. TypeOK'
  <2>1. record' \in [Accounts -> Pairings \cup {None, Torn}] /\ unsaved' \subseteq Accounts /\ errors' \in 0..MaxErrors
    BY <1>0, <1>1 DEF TypeOK
  <2> QED BY <1>0, <1>1, <2>1 DEF TypeOK, Live
<1>4. InMap' /\ Quiet' /\ Monitors'
  BY <1>0, <1>1 DEF InMap, Quiet, Monitors, Live, InHand
<1>5. Hands'
  <2>1. \A p \in Pairings : pairing[p].stage = "register" => record'[pairing[p].account] = p
    <3> SUFFICES ASSUME NEW p \in Pairings, pairing[p].stage = "register" PROVE record'[pairing[p].account] = p
      OBVIOUS
    <3>1. pairing[p].account \in Accounts \ {a} /\ record[pairing[p].account] = p
      <4>1. pairing[p].account \in Accounts \cup {None}
        BY <1>0 DEF TypeOK
      <4> QED BY <1>0, <1>1, <4>1 DEF Hands, InHand
    <3> QED BY <1>2, <3>1
  <2> QED BY <1>0, <1>1, <2>1 DEF Hands, InHand
<1>6. Handled'
  BY <1>0, <1>1, MayHandleShrinks DEF MayHandle, Live
<1>7. Agrees'
  <2> SUFFICES ASSUME process # "down", NEW b \in Accounts, Settled(b)', b \notin unsaved' PROVE Agree(b)'
    BY <1>1 DEF Agrees
  <2>1. CASE b = a
    BY <1>1, <1>2, <2>1 DEF Agree
  <2>2. CASE b # a
    <3>1. Settled(b)
      BY <1>1, <2>2 DEF Settled
    <3> QED BY <1>0, <1>1, <1>2, <2>2, <3>1 DEF Agrees, Agree
  <2> QED BY <2>1, <2>2
<1> QED BY <1>3, <1>4, <1>5, <1>6, <1>7 DEF AccountInv

-----------------------------------------------------------------------------
(* The program                                                             *)

LEMMA NoPollerTyped == NoPoller \in PollerState
BY DEF NoPoller, PollerState

LEMMA AccountInit == Init => AccountInv
<1> SUFFICES ASSUME Init PROVE AccountInv
  OBVIOUS
<1>1. TypeOK
  <2>1. NoPairing \in PairingState
    BY DEF NoPairing, PairingState
  <2>2. poller \in [Pollers -> PollerState] /\ pairing \in [Pairings -> PairingState]
    BY <2>1, NoPollerTyped DEF Init
  <2> QED BY <2>2 DEF Init, TypeOK, PollerState, PairingState, Live, NoPoller
<1>2. InMap /\ Hands /\ Quiet /\ Monitors /\ Agrees
  BY DEF Init, InMap, Hands, Quiet, Monitors, Agrees, Live, InHand, NoPoller, NoPairing
<1>3. Handled
  <2> SUFFICES ASSUME NEW m \in Messages
               PROVE  /\ IsFiniteSet(MayHandle(m))
                      /\ handled[m] + Cardinality(MayHandle(m)) <= 1 + paired[SentTo[m]] + dropped[m]
                      /\ m \notin seenFile[SentTo[m]] => handled[m] <= paired[SentTo[m]] + dropped[m]
    BY DEF Handled
  <2>1. SentTo[m] \in Accounts /\ None \notin Accounts
    OBVIOUS
  <2>2. MayHandle(m) = {}
    BY <2>1 DEF MayHandle, Init, NoPoller, Live
  <2> QED BY <2>1, <2>2, FS_EmptySet DEF Init
<1> QED BY <1>1, <1>2, <1>3 DEF AccountInv

LEMMA StartInv == ASSUME AccountInv, Start PROVE AccountInv'
<1>0. TypeOK /\ Quiet /\ Handled /\ Hands /\ process = "down"
  BY DEF AccountInv, Start
<1> DEFINE loaded == {a \in Accounts : a \in Static \/ record[a] # None}
<1>1. /\ UNCHANGED <<pairing, deleting, files, handled, paired, dropped, errors>>
      /\ unsaved' = {} /\ starts' \in 0..MaxStarts
  BY <1>0 DEF Start, TypeOK
<1>2. deleting = {} /\ \A p \in Pairings : ~InHand(p) /\ pairing[p].stage # "poll"
  BY <1>0 DEF Quiet
<1>3. CASE UNCHANGED <<process, accounts, poller>>
  <2>1. TypeOK'
    BY <1>0, <1>1, <1>3 DEF TypeOK, Live, files
  <2>2. InMap' /\ Hands' /\ Quiet' /\ Monitors' /\ Agrees'
    BY <1>0, <1>1, <1>2, <1>3
       DEF AccountInv, InMap, Hands, Quiet, Monitors, Agrees, Live, InHand, files
  <2>3. Handled'
    BY <1>0, <1>1, <1>3, MayHandleShrinks DEF MayHandle, Live, files
  <2> QED BY <2>1, <2>2, <2>3 DEF AccountInv
<1>4. ASSUME process' = "starting",
             accounts' = [a \in Accounts |-> IF a \in loaded THEN a ELSE None],
             poller' = [w \in Pollers |-> IF w \in loaded THEN Fresh(w) ELSE NoPoller]
      PROVE  AccountInv'
  <2>1. /\ \A a \in Accounts : accounts'[a] = (IF a \in loaded THEN a ELSE None)
        /\ \A w \in Pollers : poller'[w] = (IF w \in loaded THEN Fresh(w) ELSE NoPoller)
        /\ loaded \subseteq Accounts
    BY <1>4
  <2>2. \A w \in Pollers : /\ poller'[w].monitor = "none" /\ poller'[w].due = {} /\ poller'[w].working = {}
                           /\ w \in loaded => poller'[w].account = w /\ poller'[w].seen = seenFile[w]
                           /\ w \notin loaded => poller'[w].account = None
    <3> SUFFICES ASSUME NEW w \in Pollers
                 PROVE  /\ poller'[w].monitor = "none" /\ poller'[w].due = {} /\ poller'[w].working = {}
                        /\ w \in loaded => poller'[w].account = w /\ poller'[w].seen = seenFile[w]
                        /\ w \notin loaded => poller'[w].account = None
      OBVIOUS
    <3> HIDE DEF loaded
    <3>1. CASE w \in loaded
      <4>1. poller'[w] = Fresh(w)
        BY <2>1, <3>1
      <4> QED BY <3>1, <4>1 DEF Fresh
    <3>2. CASE w \notin loaded
      BY <2>1, <3>2 DEF NoPoller
    <3> QED BY <3>1, <3>2
  <2>3. TypeOK'
    <3>1. poller' \in [Pollers -> PollerState]
      BY <1>0, <1>4, <2>1, FreshTyped, NoPollerTyped
    <3> QED BY <1>0, <1>1, <1>4, <2>2, <3>1 DEF TypeOK, PollerState, Live, files
  <2> HIDE DEF loaded
  <2>4. InMap'
    BY <2>1, <2>2 DEF InMap
  <2>5. Hands'
    BY <1>0, <1>1, <1>2 DEF Hands, InHand
  <2>6. Quiet'
    BY <1>1, <1>2, <1>4 DEF Quiet, InHand
  <2>7. Monitors'
    BY <2>2 DEF Monitors, Live
  <2>8. Handled'
    <3> SUFFICES ASSUME NEW m \in Messages
                 PROVE  /\ IsFiniteSet(MayHandle(m)')
                        /\ handled[m] + Cardinality(MayHandle(m)') <= 1 + paired[SentTo[m]] + dropped[m]
                        /\ m \notin seenFile[SentTo[m]] => handled[m] <= paired[SentTo[m]] + dropped[m]
      BY <1>1 DEF Handled, files
    <3>1. /\ IsFiniteSet(MayHandle(m))
          /\ handled[m] + Cardinality(MayHandle(m)) <= 1 + paired[SentTo[m]] + dropped[m]
          /\ m \notin seenFile[SentTo[m]] => handled[m] <= paired[SentTo[m]] + dropped[m]
          /\ handled[m] \in Nat /\ paired[SentTo[m]] \in Nat /\ dropped[m] \in Nat
          /\ SentTo[m] \in Accounts
      BY <1>0 DEF Handled, TypeOK
    <3>2. /\ MayHandle(m)' \subseteq {SentTo[m]}
          /\ m \in seenFile[SentTo[m]] => MayHandle(m)' = {}
      BY <2>1, <2>2, <3>1 DEF MayHandle, Live
    <3>3. /\ IsFiniteSet(MayHandle(m)') /\ Cardinality(MayHandle(m)') \in Nat
          /\ Cardinality(MayHandle(m)') <= 1 /\ Cardinality(MayHandle(m)) \in Nat
          /\ m \in seenFile[SentTo[m]] => Cardinality(MayHandle(m)') = 0
      <4>1. IsFiniteSet({SentTo[m]}) /\ Cardinality({SentTo[m]}) = 1
        BY FS_Singleton
      <4>2. IsFiniteSet(MayHandle(m)') /\ Cardinality(MayHandle(m)') <= 1
        BY <3>2, <4>1, FS_Subset
      <4>3. Cardinality(MayHandle(m)') \in Nat /\ Cardinality(MayHandle(m)) \in Nat
        BY <3>1, <4>2, FS_CardinalityType
      <4>4. m \in seenFile[SentTo[m]] => Cardinality(MayHandle(m)') = 0
        BY <3>2, FS_EmptySet
      <4> QED BY <4>2, <4>3, <4>4
    <3> QED BY <3>1, <3>3
  <2>9. Agrees'
    BY <1>1, <2>1 DEF Agrees, Agree, Settled, files, loaded
  <2> QED BY <2>3, <2>4, <2>5, <2>6, <2>7, <2>8, <2>9 DEF AccountInv
<1> QED BY <1>3, <1>4 DEF Start

LEMMA ServeInv == ASSUME AccountInv, Serve PROVE AccountInv'
<1>0. TypeOK /\ InMap /\ Hands /\ Quiet /\ Monitors /\ Handled /\ Agrees /\ process = "starting" /\ process' = "up"
  BY DEF AccountInv, Serve
<1>1. UNCHANGED <<accounts, poller, pairing, deleting, files, ghosts, starts, errors>>
  BY DEF Serve
<1>2. TypeOK'
  BY <1>0, <1>1 DEF TypeOK, Live, files, ghosts
<1>3. InMap' /\ Hands' /\ Quiet' /\ Monitors'
  BY <1>0, <1>1 DEF InMap, Hands, InHand, Quiet, Monitors, Live, files
<1>4. Agrees'
  BY <1>0, <1>1 DEF Agrees, Agree, Settled, files, ghosts
<1>5. Handled'
  BY <1>0, <1>1, MayHandleShrinks DEF MayHandle, Live, files, ghosts
<1> QED BY <1>2, <1>3, <1>4, <1>5 DEF AccountInv

LEMMA StopInv == ASSUME AccountInv, Stop PROVE AccountInv'
<1>0. TypeOK /\ InMap /\ Hands /\ Quiet /\ Monitors /\ Handled /\ Agrees /\ process = "up" /\ process' = "stopping"
  BY DEF AccountInv, Stop
<1>1. /\ UNCHANGED <<accounts, pairing, deleting, files, ghosts, starts, errors>>
      /\ poller' = [w \in Pollers |-> IF Live(w) THEN [poller[w] EXCEPT !.canceled = TRUE] ELSE poller[w]]
  BY DEF Stop
<1>2. \A w \in Pollers :
         /\ poller'[w] \in PollerState
         /\ poller'[w].account = poller[w].account /\ poller'[w].monitor = poller[w].monitor
         /\ poller'[w].seen = poller[w].seen /\ poller'[w].registered = poller[w].registered
         /\ poller'[w].due = poller[w].due /\ poller'[w].fetched = poller[w].fetched
         /\ poller'[w].working = poller[w].working
         /\ Live(w) => poller'[w].canceled
  <2> SUFFICES ASSUME NEW w \in Pollers
               PROVE  /\ poller'[w] \in PollerState
                      /\ poller'[w].account = poller[w].account /\ poller'[w].monitor = poller[w].monitor
                      /\ poller'[w].seen = poller[w].seen /\ poller'[w].registered = poller[w].registered
                      /\ poller'[w].due = poller[w].due /\ poller'[w].fetched = poller[w].fetched
                      /\ poller'[w].working = poller[w].working
                      /\ Live(w) => poller'[w].canceled
    OBVIOUS
  <2>1. poller[w] \in PollerState
    BY <1>0 DEF TypeOK, PollerState
  <2>2. CASE Live(w)
    BY <1>1, <2>1, <2>2 DEF PollerState
  <2>3. CASE ~Live(w)
    BY <1>1, <2>1, <2>3
  <2> QED BY <2>2, <2>3
<1>3. TypeOK'
  <2>1. \A w \in Pollers : Live(w)' => poller'[w].registered
    BY <1>0, <1>2 DEF TypeOK, Live
  <2>2. poller' \in [Pollers -> PollerState]
    BY <1>1, <1>2
  <2> QED BY <1>0, <1>1, <2>1, <2>2 DEF TypeOK, PollerState, files, ghosts
<1>4. InMap'
  BY <1>0, <1>1, <1>2 DEF InMap, TypeOK
<1>5. Hands'
  BY <1>0, <1>1, <1>2 DEF Hands, InHand, files
<1>6. Quiet'
  BY <1>0, <1>1 DEF Quiet, InHand
<1>7. Monitors'
  BY <1>0, <1>1, <1>2 DEF Monitors, Live
<1>8. Agrees'
  BY <1>0, <1>1 DEF Agrees, Agree, Settled, files, ghosts
<1>9. Handled'
  BY <1>0, <1>1, <1>2, MayHandleShrinks DEF MayHandle, Live, files, ghosts
<1> QED BY <1>3, <1>4, <1>5, <1>6, <1>7, <1>8, <1>9 DEF AccountInv

\* The end of the program, whatever it leaves of the files.
LEMMA GoneInv ==
    ASSUME AccountInv, Gone, UNCHANGED <<handled, paired, starts>>,
           record' \in [Accounts -> Pairings \cup {None, Torn}], cursor' \in [Accounts -> SUBSET Messages],
           seenFile' \in [Accounts -> SUBSET Messages], dropped' \in [Messages -> Nat],
           errors' \in 0..MaxErrors, unsaved' \subseteq Accounts,
           \A m \in Messages :
              /\ dropped'[m] >= dropped[m]
              /\ \A a \in Accounts : m \in seenFile[a] /\ m \notin seenFile'[a] => dropped'[m] >= dropped[m] + 1
    PROVE  AccountInv'
<1>0. TypeOK /\ Handled
  BY DEF AccountInv
<1>1. /\ process' = "down" /\ deleting' = {}
      /\ accounts' = [a \in Accounts |-> None]
      /\ poller' = [w \in Pollers |-> NoPoller]
      /\ pairing' = [p \in Pairings |-> IF pairing[p] = NoPairing THEN NoPairing
                                        ELSE [pairing[p] EXCEPT !.stage = "ended"]]
  BY DEF Gone
<1>2. \A p \in Pairings : pairing'[p] \in PairingState /\ pairing'[p].stage \in {"none", "ended"}
                          /\ (pairing'[p].stage = "none" => pairing'[p].account = None)
  <2> SUFFICES ASSUME NEW p \in Pairings
               PROVE  pairing'[p] \in PairingState /\ pairing'[p].stage \in {"none", "ended"}
                      /\ (pairing'[p].stage = "none" => pairing'[p].account = None)
    OBVIOUS
  <2>1. pairing[p] \in PairingState
    BY <1>0 DEF TypeOK, PairingState
  <2> QED BY <1>1, <2>1 DEF PairingState, NoPairing
<1>3. TypeOK'
  <2>1. poller' \in [Pollers -> PollerState] /\ pairing' \in [Pairings -> PairingState]
    BY <1>1, <1>2, NoPollerTyped
  <2>2. \A w \in Pollers : ~Live(w)'
    BY <1>1 DEF Live, NoPoller
  <2> QED BY <1>0, <1>1, <2>1, <2>2 DEF TypeOK, PollerState, PairingState
<1>4. InMap' /\ Hands' /\ Quiet' /\ Monitors' /\ Agrees'
  BY <1>1, <1>2 DEF InMap, Hands, Quiet, Monitors, Agrees, Live, InHand, NoPoller
<1>5. Handled'
  <2> SUFFICES ASSUME NEW m \in Messages
               PROVE  /\ IsFiniteSet(MayHandle(m)')
                      /\ handled[m] + Cardinality(MayHandle(m)') <= 1 + paired[SentTo[m]] + dropped'[m]
                      /\ m \notin seenFile'[SentTo[m]] => handled[m] <= paired[SentTo[m]] + dropped'[m]
    BY DEF Handled
  <2>1. /\ IsFiniteSet(MayHandle(m))
        /\ handled[m] + Cardinality(MayHandle(m)) <= 1 + paired[SentTo[m]] + dropped[m]
        /\ m \notin seenFile[SentTo[m]] => handled[m] <= paired[SentTo[m]] + dropped[m]
        /\ handled[m] \in Nat /\ paired[SentTo[m]] \in Nat /\ dropped[m] \in Nat /\ SentTo[m] \in Accounts
        /\ dropped'[m] \in Nat /\ dropped'[m] >= dropped[m]
    BY <1>0 DEF Handled, TypeOK
  <2>2. MayHandle(m)' = {}
    BY <1>1, <2>1 DEF MayHandle, Live, NoPoller
  <2>3. /\ IsFiniteSet(MayHandle(m)') /\ Cardinality(MayHandle(m)') = 0 /\ Cardinality(MayHandle(m)) \in Nat
    BY <2>1, <2>2, FS_EmptySet, FS_CardinalityType
  <2>4. m \notin seenFile'[SentTo[m]] => m \notin seenFile[SentTo[m]] \/ dropped'[m] >= dropped[m] + 1
    BY <2>1
  <2> QED BY <2>1, <2>3, <2>4
<1> QED BY <1>3, <1>4, <1>5 DEF AccountInv

LEMMA StartNextInv == ASSUME AccountInv, NEW a \in Accounts, StartNext(a) PROVE AccountInv'
<1>0. TypeOK /\ InMap /\ Monitors /\ Handled /\ process = "starting" /\ accounts[a] = a /\ poller[a].monitor = "none"
  BY DEF AccountInv, StartNext, NotStarted
<1>1. poller[a] \in PollerState /\ poller[a].account = a
  <2>1. a # None
    OBVIOUS
  <2> QED BY <1>0, <2>1 DEF TypeOK, PollerState, InMap
<1>2. CASE errors < MaxErrors /\ errors' = errors + 1 /\ Gone
  <2>1. /\ record' \in [Accounts -> Pairings \cup {None, Torn}] /\ cursor' \in [Accounts -> SUBSET Messages]
        /\ seenFile' \in [Accounts -> SUBSET Messages] /\ dropped' \in [Messages -> Nat]
        /\ errors' \in 0..MaxErrors /\ unsaved' \subseteq Accounts
        /\ \A m \in Messages : dropped'[m] >= dropped[m]
        /\ UNCHANGED <<seenFile, handled, paired, starts>>
    BY <1>0, <1>2 DEF StartNext, TypeOK, files, ghosts
  <2> QED BY <1>2, <2>1, GoneInv
<1>3. CASE poller' = [poller EXCEPT ![a] = Launched(a)] /\ UNCHANGED <<process, accounts, pairing, deleting, errors>>
  <2>1. /\ Launched(a) \in PollerState /\ Launched(a).account = a /\ Launched(a).seen = poller[a].seen
        /\ Launched(a).due = poller[a].due /\ Launched(a).fetched = poller[a].fetched
        /\ Launched(a).registered /\ Launched(a).working = poller[a].working
    <3>1. cursor[poller[a].account] \in SUBSET Messages
      BY <1>0, <1>1 DEF TypeOK
    <3> QED BY <1>1, <3>1 DEF Launched, PollerState
  <2>2. UNCHANGED <<process, accounts, pairing, deleting, files, ghosts, starts, errors>>
    BY <1>3 DEF StartNext
  <2>3. TypeOK' /\ poller'[a] = Launched(a) /\ \A v \in Pollers \ {a} : poller'[v] = poller[v]
    <3>1. /\ cursor' \in [Accounts -> SUBSET Messages] /\ seenFile' \in [Accounts -> SUBSET Messages]
          /\ handled' \in [Messages -> Nat] /\ dropped' \in [Messages -> Nat] /\ errors' \in 0..MaxErrors
      BY <1>0, <2>2 DEF TypeOK, files, ghosts
    <3> QED BY <1>0, <1>3, <2>1, <2>2, <3>1, PollerTyped DEF files, ghosts
  <2>4. InMap' /\ Hands' /\ Quiet' /\ Monitors' /\ Agrees'
    BY <1>0, <1>1, <2>1, <2>2, <2>3, PollerMoves DEF Monitors, files, ghosts
  <2>5. Handled'
    BY <1>0, <1>1, <2>1, <2>2, <2>3, OnePoller DEF files, ghosts
  <2> QED BY <2>3, <2>4, <2>5 DEF AccountInv
<1> QED BY <1>2, <1>3 DEF StartNext

LEMMA ExitInv == ASSUME AccountInv, Exit PROVE AccountInv'
<1>0. TypeOK /\ Hands /\ Monitors /\ Gone /\ UNCHANGED <<handled, paired, unsaved, starts, errors>>
  BY DEF AccountInv, Exit
<1>1. errors' \in 0..MaxErrors /\ unsaved' \subseteq Accounts
  BY <1>0 DEF TypeOK
<1>2. CASE UNCHANGED <<files, dropped>>
  <2>1. /\ record' \in [Accounts -> Pairings \cup {None, Torn}] /\ cursor' \in [Accounts -> SUBSET Messages]
        /\ seenFile' \in [Accounts -> SUBSET Messages] /\ dropped' \in [Messages -> Nat]
        /\ \A m \in Messages : dropped'[m] >= dropped[m]
        /\ UNCHANGED seenFile
    BY <1>0, <1>2 DEF TypeOK, files
  <2> QED BY <1>0, <1>1, <2>1, GoneInv
<1>3. ASSUME NEW a \in Accounts, record' = [record EXCEPT ![a] = Torn],
             UNCHANGED <<cursor, seenFile, dropped>>
      PROVE  AccountInv'
  <2>0. record \in [Accounts -> Pairings \cup {None, Torn}] /\ dropped \in [Messages -> Nat]
    BY <1>0 DEF TypeOK
  <2>1. /\ record' \in [Accounts -> Pairings \cup {None, Torn}]
        /\ \A m \in Messages : dropped'[m] >= dropped[m]
    BY <1>3, <2>0
  <2>2. /\ cursor' \in [Accounts -> SUBSET Messages] /\ seenFile' \in [Accounts -> SUBSET Messages]
        /\ dropped' \in [Messages -> Nat]
    BY <1>0, <1>3 DEF TypeOK
  <2> QED BY <1>0, <1>1, <1>3, <2>1, <2>2, GoneInv
<1>4. ASSUME NEW a \in Accounts, cursor' = [cursor EXCEPT ![a] = {}],
             UNCHANGED <<record, seenFile, dropped>>
      PROVE  AccountInv'
  <2>0. cursor \in [Accounts -> SUBSET Messages] /\ dropped \in [Messages -> Nat]
    BY <1>0 DEF TypeOK
  <2>1. /\ cursor' \in [Accounts -> SUBSET Messages]
        /\ \A m \in Messages : dropped'[m] >= dropped[m]
    BY <1>4, <2>0
  <2>2. /\ record' \in [Accounts -> Pairings \cup {None, Torn}] /\ seenFile' \in [Accounts -> SUBSET Messages]
        /\ dropped' \in [Messages -> Nat]
    BY <1>0, <1>4 DEF TypeOK
  <2> QED BY <1>0, <1>1, <1>4, <2>1, <2>2, GoneInv
<1>5. ASSUME NEW a \in Accounts, seenFile' = [seenFile EXCEPT ![a] = {}],
             dropped' = [m \in Messages |-> IF m \in seenFile[a] THEN dropped[m] + 1 ELSE dropped[m]],
             UNCHANGED <<record, cursor>>
      PROVE  AccountInv'
  <2>1. /\ record' \in [Accounts -> Pairings \cup {None, Torn}] /\ cursor' \in [Accounts -> SUBSET Messages]
        /\ seenFile' \in [Accounts -> SUBSET Messages]
    BY <1>0, <1>5 DEF TypeOK
  <2>2. /\ dropped \in [Messages -> Nat]
        /\ \A m \in Messages : dropped'[m] = (IF m \in seenFile[a] THEN dropped[m] + 1 ELSE dropped[m])
    BY <1>0, <1>5 DEF TypeOK
  <2>3. dropped' \in [Messages -> Nat] /\ \A m \in Messages : dropped'[m] >= dropped[m]
    BY <1>5, <2>2
  <2>4. ASSUME NEW m \in Messages, NEW b \in Accounts, m \in seenFile[b], m \notin seenFile'[b]
        PROVE  dropped'[m] >= dropped[m] + 1
    <3>1. b = a
      BY <1>0, <1>5, <2>4 DEF TypeOK
    <3> QED BY <2>2, <2>4, <3>1
  <2> QED BY <1>0, <1>1, <2>1, <2>3, <2>4, GoneInv
<1>6. CASE CutOff
  <2>1. \A p \in Pairings : pairing[p].stage = "save" => pairing[p].account \in Accounts
    BY <1>0 DEF Hands, InHand, TypeOK
  <2>2. \A w \in Pollers : poller[w].due # {} \/ poller[w].working # {} => poller[w].account \in Accounts
    <3> SUFFICES ASSUME NEW w \in Pollers, poller[w].due # {} \/ poller[w].working # {}
                 PROVE  poller[w].account \in Accounts
      OBVIOUS
    <3>1. poller[w] \in PollerState
      BY <1>0 DEF TypeOK, PollerState
    <3> QED BY <1>0, <3>1 DEF Monitors, PollerState
  <2> QED BY <1>3, <1>4, <1>5, <1>6, <2>1, <2>2 DEF CutOff
<1> QED BY <1>2, <1>6 DEF Exit

-----------------------------------------------------------------------------
(* The promises                                                            *)

LEMMA AccountStep == ASSUME ~Overlap PROVE AccountInv /\ [Next]_vars => AccountInv'
<1> SUFFICES ASSUME AccountInv, [Next]_vars PROVE AccountInv'
  OBVIOUS
<1>1. CASE UNCHANGED vars
  <2>1. TypeOK' /\ InMap' /\ Hands' /\ Quiet' /\ Monitors' /\ Agrees'
    BY <1>1 DEF vars, files, ghosts, AccountInv, TypeOK, InMap, Hands, Quiet, Monitors, Agrees, Agree,
                Settled, Live, InHand
  <2>2. Handled'
    BY <1>1, MayHandleShrinks DEF vars, files, ghosts, AccountInv, MayHandle, Live
  <2> QED BY <2>1, <2>2 DEF AccountInv
<1>2. CASE Start \/ Serve \/ Stop \/ Exit
  BY <1>2, StartInv, ServeInv, StopInv, ExitInv
<1>3. ASSUME NEW p \in Pairings,
             CreatePairing(p) \/ PollQRStatus(p) \/ AddAccount(p) \/ \E a \in Accounts : Confirmed(p, a)
      PROVE  AccountInv'
  BY <1>3, CreatePairingInv, PollQRStatusInv, ConfirmedInv, SaveAccountInv, RegisterInv, StartAccountInv,
     ReportInv DEF AddAccount
<1>4. ASSUME NEW a \in Accounts, DeleteAccount(a) \/ RemoveRecord(a) \/ StartNext(a) PROVE AccountInv'
  BY <1>4, DeleteAccountInv, RemoveRecordInv, StartNextInv
<1>5. ASSUME NEW w \in Pollers, Monitor(w) \/ MonitorStops(w) \/ MonitorFails(w) PROVE AccountInv'
  BY <1>5, FetchInv, HandleMessageInv, SaveSyncBufInv, MonitorEndsInv DEF Monitor
<1>6. ASSUME NEW w \in Pollers, NEW m \in Messages, Settle(w, m) \/ Expire(w, m) PROVE AccountInv'
  BY <1>6, SettleInv, ExpireInv
<1>7. ASSUME NEW a \in Accounts, NEW m \in Messages, ExpireOnDisk(a, m) PROVE AccountInv'
  BY <1>7, ExpireOnDiskInv
<1> QED BY <1>1, <1>2, <1>3, <1>4, <1>5, <1>6, <1>7 DEF Next

\* An account has one monitor, that of its poller in the map, and one that was
\* deleted or replaced is not polled any more (runner.go: addAccount cancels the
\* poller it replaces, DeleteAccount the one it takes out).  A message is handled once
\* more only for each time the account was paired again, its turn failed, its hour
\* passed, or a file that did not keep the note of it was left by a failing write or
\* a crash.
THEOREM AccountsPolledOnce == ASSUME ~Overlap PROVE Spec => []PolledOnce
<1>1. AccountInv => PolledOnce
  <2> SUFFICES ASSUME AccountInv PROVE PolledOnce
    OBVIOUS
  <2>1. TypeOK /\ \A w \in Pollers : Live(w) /\ ~poller[w].canceled => accounts[poller[w].account] = w
    BY DEF AccountInv, Monitors
  <2>2. ASSUME NEW m \in Messages PROVE handled[m] <= 1 + paired[SentTo[m]] + dropped[m]
    <3>1. /\ IsFiniteSet(MayHandle(m))
          /\ handled[m] + Cardinality(MayHandle(m)) <= 1 + paired[SentTo[m]] + dropped[m]
          /\ handled[m] \in Nat /\ paired[SentTo[m]] \in Nat /\ dropped[m] \in Nat
      BY DEF AccountInv, Handled, TypeOK
    <3> QED BY <3>1, FS_CardinalityType
  <2> QED BY <2>1, <2>2 DEF PolledOnce
<1> QED BY AccountInit, AccountStep, <1>1, PTL DEF Spec

\* What is on disk is what is in the map whenever nothing is in hand for the account:
\* saveAccount precedes the map and the removal of the record follows it, so that
\* a restart at any point finds the account as it was paired last, unless the last
\* write or removal of its record was reported to have failed.
THEOREM AccountsSurviveRestart == ASSUME ~Overlap PROVE Spec => []SurvivesRestart
<1>1. AccountInv => SurvivesRestart
  BY DEF AccountInv, Agrees, Agree, Settled, SurvivesRestart, Busy
<1> QED BY AccountInit, AccountStep, <1>1, PTL DEF Spec

-----------------------------------------------------------------------------
(* The owner                                                               *)

USE OwnerAssumption DEF OwnerAssumption

\* The binding of e as its owner has been told: the one from before the /bind in
\* hand while there is one, the one on disk while the process is down.
Committed(e) ==
    CASE ~running -> file.bindings[e]
      [] running /\ Writing /\ e = writer.entrypoint -> writer.previous
      [] OTHER -> bindings[e]

\* A process that is down has lost its memory and may be started once more.
DownIsEmpty ==
    ~running => /\ loads < MaxLoads
                /\ writer = NoWriter /\ reading = {}

BaseInv == OwnerTypeOK /\ DownIsEmpty

\* An answer that holds the read lock comes from the owner, who was asked.
ReadersOwn ==
    \A e \in Entrypoints, s \in Senders :
        <<e, s>> \in reading => IsOwner(s, e) /\ question[e].responder = s

\* Whoever sends the notification of the run is alone, and the first to succeed.
OneSender ==
    /\ notified = (IF sent THEN 1 ELSE 0)
    /\ \A k \in Calls : call[k].stage = "sending" => ~sent
    /\ \A j, k \in Calls :
          call[j].stage = "sending" /\ call[k].stage = "sending" => j = k

\* A /bind in hand has an owner for its entrypoint, who is new or was it before.
WriterBinds ==
    Writing =>
        /\ running /\ writer.entrypoint \in Entrypoints
        /\ Bound(writer.entrypoint)
        /\ writer.previous.owner \in {Nobody, bindings[writer.entrypoint].owner}

\* Whoever was told, or is about to be told, is committed.
ToldHolds ==
    \A e \in Entrypoints \ lost :
        told[e] # Nobody /\ (running \/ file.whole) => Committed(e).owner = told[e]

RepliesHold ==
    \A e \in Entrypoints, s \in Senders :
        <<e, s>> \in replies => running /\ Committed(e).owner = s

\* A code is valid where nothing is committed.
CodesMatch == running => \A e \in Entrypoints : e \in codes <=> Committed(e).owner = Nobody

\* A file that can be read has what is committed, or already what is in hand.
FileMatches ==
    running =>
        /\ writer.stage \in {"none", "begun"} /\ file.whole =>
              \A e \in Entrypoints : file.bindings[e] = Committed(e)
        /\ writer.stage = "truncated" => ~file.whole
        /\ writer.stage = "written" => file.bindings = bindings

ToldIsCommitted == WriterBinds /\ ToldHolds /\ RepliesHold /\ CodesMatch /\ FileMatches

QuestionState == [responder : Senders \cup {Nobody}, actor : Senders \cup {Nobody},
                  via : {"none", "exact", "unchecked"}]

-----------------------------------------------------------------------------
(* The types                                                               *)

LEMMA OwnerTyped ==
    ASSUME OwnerTypeOK, NEW e \in Entrypoints
    PROVE  Owner(e) \in Senders \cup {Nobody}
BY DEF OwnerTypeOK, Owner, Bound, Bindings

LEMMA NothingBound == NoBindings \in Bindings /\ \A e \in Entrypoints : NoBindings[e].owner = Nobody
BY DEF NoBindings, Bindings, Unbound

LEMMA BaseInit == OwnerInit => BaseInv
<1> SUFFICES ASSUME OwnerInit PROVE BaseInv
  OBVIOUS
<1>1. bindings \in Bindings /\ file \in [whole : BOOLEAN, bindings : Bindings]
  BY NothingBound DEF OwnerInit
<1>2. writer \in [entrypoint : Entrypoints \cup {Nobody},
                 previous : [owner : Senders \cup {Nobody}, typed : BOOLEAN],
                 stage : {"none", "begun", "truncated", "written"}]
  BY DEF OwnerInit, NoWriter, Unbound
<1>3. question \in [Entrypoints -> QuestionState]
  BY DEF OwnerInit, NoQuestion, QuestionState
<1>4. call \in [Calls -> [stage : {"none", "sending", "done"}, target : Senders \cup {Nobody}]]
  BY DEF OwnerInit, NoCall
<1>5. ~Writing
  BY DEF OwnerInit, Writing, NoWriter
<1>6. replies \subseteq Entrypoints \X Senders /\ lost \subseteq Entrypoints
  BY DEF OwnerInit
<1>7. loads \in 1..MaxLoads /\ failures \in 0..MaxFailures /\ notified \in Nat
  BY DEF OwnerInit
<1>8. /\ running \in BOOLEAN /\ sent \in BOOLEAN /\ codes \subseteq Entrypoints
      /\ told \in [Entrypoints -> Senders \cup {Nobody}] /\ reading \subseteq Entrypoints \X Senders
  BY DEF OwnerInit
<1>9. DownIsEmpty
  BY DEF OwnerInit, DownIsEmpty
<1> QED BY <1>1, <1>2, <1>3, <1>4, <1>5, <1>6, <1>7, <1>8, <1>9
           DEF BaseInv, OwnerTypeOK, QuestionState

LEMMA BaseStep == BaseInv /\ [OwnerNext]_ownerVars => BaseInv'
<1> SUFFICES ASSUME BaseInv, [OwnerNext]_ownerVars PROVE BaseInv'
  OBVIOUS
<1> USE DEF BaseInv, OwnerTypeOK, DownIsEmpty, Writing, Bound, locks, binds, notices, counts
<1>1. ASSUME NEW e \in Entrypoints, NEW s \in Senders, NEW typed \in BOOLEAN, Bind(e, s, typed)
      PROVE  BaseInv'
  BY <1>1 DEF Bind, TakesWriteLock, Bindings, Bound
<1>2. ASSUME NEW e \in Entrypoints, NEW s \in Senders, Enrich(e, s)
      PROVE  BaseInv'
  <2>1. /\ bindings' = [bindings EXCEPT ![e] = [bindings[e] EXCEPT !.typed = TRUE]]
        /\ running /\ reading = {} /\ writer.stage = "none"
        /\ writer' = [entrypoint |-> e, previous |-> bindings[e], stage |-> "begun"]
        /\ UNCHANGED <<running, file, binds, question, reading, notices, counts>>
    BY <1>2 DEF Enrich, TakesWriteLock
  <2>2. bindings[e] \in [owner : Senders \cup {Nobody}, typed : BOOLEAN]
    BY DEF Bindings
  <2>3. bindings' \in Bindings /\ bindings'[e].owner = bindings[e].owner
    BY <2>1, <2>2 DEF Bindings
  <2>4. bindings[e].owner # Nobody
    BY <1>2 DEF Enrich
  <2> QED BY <2>1, <2>2, <2>3, <2>4 DEF Bound
<1>3. CASE Truncate
  BY <1>3 DEF Truncate, NoBindings, Unbound, Bindings, Bound
<1>4. CASE Write
  BY <1>4 DEF Write, Bound
<1>5. CASE WriteFails
  <2>1. writer' \in [entrypoint : Entrypoints \cup {Nobody},
                    previous : [owner : Senders \cup {Nobody}, typed : BOOLEAN],
                    stage : {"none", "begun", "truncated", "written"}]
    BY <1>5 DEF WriteFails, NoWriter, Unbound
  <2>2. bindings' \in Bindings
    BY <1>5 DEF WriteFails, Bindings
  <2>3. failures' \in 0..MaxFailures
    BY <1>5 DEF WriteFails
  <2> QED BY <1>5, <2>1, <2>2, <2>3 DEF WriteFails, NoWriter
<1>6. ASSUME NEW e \in Entrypoints, AskOwner(e)
      PROVE  BaseInv'
  <2>1. Owner(e) \in Senders \cup {Nobody}
    BY OwnerTyped
  <2>2. question' \in [Entrypoints -> QuestionState]
    BY <1>6, <2>1 DEF AskOwner, QuestionState
  <2> QED BY <1>6, <2>2 DEF AskOwner, QuestionState
<1>7. ASSUME NEW e \in Entrypoints, NEW s \in Senders, BeginAnswer(e, s)
      PROVE  BaseInv'
  BY <1>7 DEF BeginAnswer
<1>8. ASSUME NEW e \in Entrypoints, NEW s \in Senders, StoreAnswer(e, s)
      PROVE  BaseInv'
  BY <1>8 DEF StoreAnswer
<1>9. ASSUME NEW k \in Calls, BeginNotify(k)
      PROVE  BaseInv'
  BY <1>9, OwnerTyped DEF BeginNotify
<1>10. ASSUME NEW k \in Calls, Emit(k)
       PROVE  BaseInv'
  BY <1>10 DEF Emit
<1>11. ASSUME NEW k \in Calls, EmitFails(k)
       PROVE  BaseInv'
  BY <1>11 DEF EmitFails, NoCall
<1>12. CASE Crash
  BY <1>12 DEF Crash, NoBindings, Unbound, NoWriter, NoCall, Bindings
<1>13. CASE Load
  BY <1>13 DEF Load, NoWriter, Bindings
<1>14. CASE UNCHANGED ownerVars
  BY <1>14 DEF ownerVars
<1>15. ASSUME NEW e \in Entrypoints, NEW s \in Senders, BindAgain(e, s) \/ Reply(e, s)
       PROVE  BaseInv'
  BY <1>15 DEF BindAgain, Reply
<1>16. ASSUME NEW e \in Entrypoints, NEW s \in Senders, AnswerUnchecked(e, s)
       PROVE  BaseInv'
  BY <1>16 DEF AnswerUnchecked
<1>17. CASE Revoke
  <2>1. replies' \subseteq Entrypoints \X Senders
    BY <1>17 DEF Revoke, Bound, Bindings
  <2>2. writer' \in [entrypoint : Entrypoints \cup {Nobody},
                    previous : [owner : Senders \cup {Nobody}, typed : BOOLEAN],
                    stage : {"none", "begun", "truncated", "written"}]
    BY <1>17 DEF Revoke, NoWriter, Unbound
  <2> QED BY <1>17, <2>1, <2>2 DEF Revoke, NoWriter
<1> QED
  BY <1>1, <1>2, <1>3, <1>4, <1>5, <1>6, <1>7, <1>8, <1>9, <1>10, <1>11, <1>12, <1>13, <1>14,
     <1>15, <1>16, <1>17
     DEF OwnerNext

\* The types are kept, and a /bind is alone with the bindings while it writes:
\* nobody holds the read lock of owner_bind.go meanwhile.
THEOREM BindIsAlone == OwnerSpec => []OwnerTypeOK
<1>1. BaseInv => OwnerTypeOK
  BY DEF BaseInv
<1> QED BY BaseInit, BaseStep, <1>1, PTL DEF OwnerSpec

-----------------------------------------------------------------------------
(* notify_owner                                                            *)

LEMMA SenderInit == OwnerInit => OneSender
BY DEF OwnerInit, OneSender, NoCall

LEMMA SenderStep == OwnerTypeOK /\ OneSender /\ [OwnerNext]_ownerVars => OneSender'
<1> SUFFICES ASSUME OwnerTypeOK, OneSender, [OwnerNext]_ownerVars PROVE OneSender'
  OBVIOUS
<1>1. /\ call \in [Calls -> [stage : {"none", "sending", "done"}, target : Senders \cup {Nobody}]]
      /\ sent \in BOOLEAN /\ notified \in Nat
  BY DEF OwnerTypeOK
<1>2. CASE UNCHANGED notices
  BY <1>2 DEF OneSender, notices
<1>3. ASSUME NEW k \in Calls, BeginNotify(k)
      PROVE  OneSender'
  BY <1>1, <1>3 DEF OneSender, BeginNotify, StateLocked
<1>4. ASSUME NEW k \in Calls, Emit(k)
      PROVE  OneSender'
  <2>1. ~sent /\ notified = 0
    BY <1>4 DEF OneSender, Emit
  <2>2. sent' /\ notified' = 1
    BY <1>1, <1>4, <2>1 DEF Emit
  <2>3. \A j \in Calls : call'[j].stage # "sending"
    BY <1>1, <1>4 DEF OneSender, Emit
  <2> QED BY <2>2, <2>3 DEF OneSender
<1>5. ASSUME NEW k \in Calls, EmitFails(k)
      PROVE  OneSender'
  BY <1>1, <1>5 DEF OneSender, EmitFails, NoCall
<1>6. CASE Crash
  BY <1>6 DEF OneSender, Crash, NoCall
<1>7. ASSUME NEW e \in Entrypoints, NEW s \in Senders,
             \/ \E typed \in BOOLEAN : Bind(e, s, typed)
             \/ Enrich(e, s) \/ BindAgain(e, s) \/ Reply(e, s)
             \/ BeginAnswer(e, s) \/ StoreAnswer(e, s) \/ AnswerUnchecked(e, s)
      PROVE  UNCHANGED notices
  BY <1>7 DEF Bind, Enrich, BindAgain, Reply, BeginAnswer, StoreAnswer, AnswerUnchecked
<1>8. ASSUME NEW e \in Entrypoints, AskOwner(e)
      PROVE  UNCHANGED notices
  BY <1>8 DEF AskOwner
<1>9. ASSUME Truncate \/ Write \/ WriteFails \/ Revoke \/ Load \/ UNCHANGED ownerVars
      PROVE  UNCHANGED notices
  BY <1>9 DEF Truncate, Write, WriteFails, Revoke, Load, ownerVars
<1> QED BY <1>2, <1>3, <1>4, <1>5, <1>6, <1>7, <1>8, <1>9 DEF OwnerNext

\* A run notifies its owner at most once, however many of its calls run at the same
\* time: notify_owner keeps the lock of the run's state over the delivery.
THEOREM OwnerNotifiedOnce == OwnerSpec => []NotifiedOnce
<1>1. OneSender => NotifiedOnce
  BY DEF OneSender, NotifiedOnce
<1> QED BY BaseInit, BaseStep, SenderInit, SenderStep, <1>1, PTL DEF OwnerSpec, BaseInv

-----------------------------------------------------------------------------
(* Answers                                                                 *)

LEMMA ReadersInit == OwnerInit => ReadersOwn
BY DEF OwnerInit, ReadersOwn

LEMMA ReadersStep == BaseInv /\ ReadersOwn /\ [OwnerNext]_ownerVars => ReadersOwn'
<1> SUFFICES ASSUME BaseInv, ReadersOwn, [OwnerNext]_ownerVars PROVE ReadersOwn'
  OBVIOUS
<1>1. question \in [Entrypoints -> QuestionState]
  BY DEF BaseInv, OwnerTypeOK, QuestionState
<1>2. CASE reading' = {}
  BY <1>2 DEF ReadersOwn
<1>3. CASE UNCHANGED <<bindings, reading, question>>
  BY <1>3 DEF ReadersOwn, IsOwner, Owner, Bound
<1>4. ASSUME NEW e \in Entrypoints, AskOwner(e)
      PROVE  ReadersOwn'
  <2>1. UNCHANGED <<bindings, reading>>
    BY <1>4 DEF AskOwner, locks
  <2>2. \A d \in Entrypoints :
            question[d].responder # Nobody => question'[d].responder = question[d].responder
    BY <1>1, <1>4 DEF AskOwner, QuestionState
  <2>3. \A s \in Senders : s # Nobody
    OBVIOUS
  <2> QED BY <2>1, <2>2, <2>3 DEF ReadersOwn, IsOwner, Owner, Bound
<1>5. ASSUME NEW e \in Entrypoints, NEW s \in Senders, BeginAnswer(e, s)
      PROVE  ReadersOwn'
  BY <1>5 DEF BeginAnswer, ReadersOwn, IsOwner, Owner, Bound
<1>6. ASSUME NEW e \in Entrypoints, NEW s \in Senders, StoreAnswer(e, s)
      PROVE  ReadersOwn'
  <2>1. \A d \in Entrypoints : question'[d].responder = question[d].responder
    BY <1>1, <1>6 DEF StoreAnswer, QuestionState
  <2>2. reading' \subseteq reading /\ UNCHANGED bindings
    BY <1>6 DEF StoreAnswer
  <2> QED BY <2>1, <2>2 DEF ReadersOwn, IsOwner, Owner, Bound
<1>7. ASSUME NEW e \in Entrypoints, NEW s \in Senders,
             (\E typed \in BOOLEAN : Bind(e, s, typed)) \/ Enrich(e, s)
      PROVE  reading' = {}
  BY <1>7 DEF Bind, Enrich, TakesWriteLock
<1>8. ASSUME WriteFails \/ Crash \/ Load
      PROVE  reading' = {}
  BY <1>8 DEF WriteFails, Crash, Load, locks, BaseInv, OwnerTypeOK, Writing, DownIsEmpty
<1>9. ASSUME \/ \E k \in Calls : BeginNotify(k) \/ Emit(k) \/ EmitFails(k)
             \/ \E e \in Entrypoints, s \in Senders : BindAgain(e, s) \/ Reply(e, s)
             \/ Truncate \/ Write \/ Revoke \/ UNCHANGED ownerVars
      PROVE  UNCHANGED <<bindings, reading, question>>
  BY <1>9 DEF BeginNotify, Emit, EmitFails, BindAgain, Reply, Truncate, Write, Revoke, ownerVars, locks
<1>10. ASSUME NEW e \in Entrypoints, NEW s \in Senders, AnswerUnchecked(e, s)
       PROVE  ReadersOwn'
  <2>1. \A d \in Entrypoints : question'[d].responder = question[d].responder
    BY <1>1, <1>10 DEF AnswerUnchecked, QuestionState
  <2>2. UNCHANGED <<bindings, reading>>
    BY <1>10 DEF AnswerUnchecked, locks
  <2> QED BY <2>1, <2>2 DEF ReadersOwn, IsOwner, Owner, Bound
<1> QED BY <1>2, <1>3, <1>4, <1>5, <1>6, <1>7, <1>8, <1>9, <1>10 DEF OwnerNext

\* How the answer of e comes to be another.
Answered(e) == question'[e].via # question[e].via \/ question'[e].actor # question[e].actor

\* Only the end of an answer that holds the read lock, or one that needs no owner,
\* closes a question, and only an open one.
LEMMA ClosedByAnswer ==
    ASSUME BaseInv, [OwnerNext]_ownerVars, NEW e \in Entrypoints, Answered(e)
    PROVE  /\ question[e].via = "none"
           /\ \/ question'[e].via = "unchecked"
              \/ \E s \in Senders : <<e, s>> \in reading /\ question'[e].actor = s
<1>1. question \in [Entrypoints -> QuestionState]
  BY DEF BaseInv, OwnerTypeOK, QuestionState
<1>2. ASSUME NEW d \in Entrypoints, NEW s \in Senders, StoreAnswer(d, s)
      PROVE  e = d /\ question[e].via = "none" /\ <<e, s>> \in reading /\ question'[e].actor = s
  BY <1>1, <1>2 DEF StoreAnswer, Answered, QuestionState
<1>3. ASSUME NEW d \in Entrypoints, NEW s \in Senders, AnswerUnchecked(d, s)
      PROVE  e = d /\ question[e].via = "none" /\ question'[e].via = "unchecked"
  BY <1>1, <1>3 DEF AnswerUnchecked, Answered, QuestionState
<1>4. ASSUME NEW d \in Entrypoints, AskOwner(d)
      PROVE  FALSE
  BY <1>1, <1>4 DEF AskOwner, Answered, QuestionState
<1>5. ASSUME NEW d \in Entrypoints, NEW s \in Senders,
             \/ \E typed \in BOOLEAN : Bind(d, s, typed)
             \/ Enrich(d, s) \/ BindAgain(d, s) \/ Reply(d, s) \/ BeginAnswer(d, s)
      PROVE  FALSE
  BY <1>5 DEF Bind, Enrich, BindAgain, Reply, BeginAnswer, Answered
<1>6. ASSUME \/ \E k \in Calls : BeginNotify(k) \/ Emit(k) \/ EmitFails(k)
             \/ Truncate \/ Write \/ WriteFails \/ Revoke \/ Crash \/ Load \/ UNCHANGED ownerVars
      PROVE  FALSE
  BY <1>6 DEF BeginNotify, Emit, EmitFails, Truncate, Write, WriteFails, Revoke, Crash, Load,
              ownerVars, Answered
<1> QED BY <1>2, <1>3, <1>4, <1>5, <1>6 DEF OwnerNext

\* The exact response that closes a question is the one of its owner, who still owns
\* the entrypoint: resolveExactOwnerResponse keeps the read lock of the bindings
\* until the store has written.  What ResolveHumanRequest stores for others, without
\* a look at the bindings, is no such response; and neither replaces the other.
THEOREM OwnersAnswer == OwnerSpec => AnsweredByOwner
<1>1. ASSUME BaseInv, ReadersOwn, [OwnerNext]_ownerVars, NEW e \in Entrypoints, Answered(e)
      PROVE  /\ question[e].via = "none"
             /\ question'[e].via = "exact" =>
                   question'[e].actor = question[e].responder /\ IsOwner(question'[e].actor, e)
  BY <1>1, ClosedByAnswer DEF ReadersOwn
<1>2. BaseInv /\ ReadersOwn /\ [OwnerNext]_ownerVars =>
          [\A e \in Entrypoints :
              question'[e].via # question[e].via \/ question'[e].actor # question[e].actor =>
                  /\ question[e].via = "none"
                  /\ question'[e].via = "exact" =>
                        question'[e].actor = question[e].responder
                        /\ IsOwner(question'[e].actor, e)]_ownerVars
  BY <1>1 DEF Answered
<1> QED BY BaseInit, BaseStep, ReadersInit, ReadersStep, <1>2, PTL DEF OwnerSpec, AnsweredByOwner

-----------------------------------------------------------------------------
(* /bind                                                                   *)

LEMMA ToldInit == OwnerInit => ToldIsCommitted
BY NothingBound
   DEF OwnerInit, ToldIsCommitted, WriterBinds, ToldHolds, RepliesHold, CodesMatch, FileMatches,
       Committed, NoWriter, Writing

\* The first half of a /bind: nothing that is committed changes.
LEMMA BindBegins ==
    ASSUME BaseInv, ToldIsCommitted, NEW e \in Entrypoints, TakesWriteLock(e),
           UNCHANGED <<running, file, binds>>,
           NEW b \in [owner : Senders \cup {Nobody}, typed : BOOLEAN],
           bindings' = [bindings EXCEPT ![e] = b],
           b.owner # Nobody, bindings[e].owner \in {Nobody, b.owner}
    PROVE  ToldIsCommitted'
<1>0. bindings \in Bindings
  BY DEF BaseInv, OwnerTypeOK
<1>1. /\ running /\ writer.stage = "none" /\ UNCHANGED <<codes, replies, told, lost>>
      /\ writer'.stage = "begun" /\ writer'.entrypoint = e /\ writer'.previous = bindings[e]
  BY DEF TakesWriteLock, Writing, binds
<1>2. \A d \in Entrypoints : Committed(d)' = Committed(d)
  BY <1>0, <1>1 DEF Committed, Writing, Bindings
<1>3. WriterBinds'
  BY <1>0, <1>1 DEF WriterBinds, Bound, Bindings
<1> QED BY <1>1, <1>2, <1>3 DEF ToldIsCommitted, ToldHolds, RepliesHold, CodesMatch, FileMatches

LEMMA ToldStep == BaseInv /\ ToldIsCommitted /\ [OwnerNext]_ownerVars => ToldIsCommitted'
<1> SUFFICES ASSUME BaseInv, ToldIsCommitted, [OwnerNext]_ownerVars PROVE ToldIsCommitted'
  OBVIOUS
<1> USE DEF ToldIsCommitted
<1>0. /\ bindings \in Bindings /\ file.bindings \in Bindings
      /\ told \in [Entrypoints -> Senders \cup {Nobody}]
      /\ running \in BOOLEAN /\ file.whole \in BOOLEAN
      /\ writer.stage \in {"none", "begun", "truncated", "written"}
  BY DEF BaseInv, OwnerTypeOK
<1>1. CASE UNCHANGED <<running, bindings, file, writer, binds>>
  BY <1>1 DEF WriterBinds, ToldHolds, RepliesHold, CodesMatch, FileMatches, Committed, Writing, Bound,
              binds
<1>2. ASSUME NEW e \in Entrypoints, NEW s \in Senders, NEW typed \in BOOLEAN, Bind(e, s, typed)
      PROVE  ToldIsCommitted'
  <2> DEFINE b == [owner |-> s, typed |-> typed]
  <2>1. b \in [owner : Senders \cup {Nobody}, typed : BOOLEAN] /\ b.owner # Nobody
    OBVIOUS
  <2>2. bindings[e].owner = Nobody /\ bindings' = [bindings EXCEPT ![e] = b]
    BY <1>2 DEF Bind, Bound
  <2>3. TakesWriteLock(e) /\ UNCHANGED <<running, file, binds>>
    BY <1>2 DEF Bind
  <2> HIDE DEF b
  <2> QED BY <2>1, <2>2, <2>3, BindBegins
<1>3. ASSUME NEW e \in Entrypoints, NEW s \in Senders, Enrich(e, s)
      PROVE  ToldIsCommitted'
  <2> DEFINE b == [bindings[e] EXCEPT !.typed = TRUE]
  <2>1. bindings[e] \in [owner : Senders \cup {Nobody}, typed : BOOLEAN] /\ bindings[e].owner # Nobody
    BY <1>0, <1>3 DEF Enrich, Bindings
  <2>2. b \in [owner : Senders \cup {Nobody}, typed : BOOLEAN] /\ b.owner = bindings[e].owner
    BY <2>1
  <2>3. bindings' = [bindings EXCEPT ![e] = b]
    BY <1>3 DEF Enrich
  <2>4. TakesWriteLock(e) /\ UNCHANGED <<running, file, binds>>
    BY <1>3 DEF Enrich
  <2> HIDE DEF b
  <2> QED BY <2>1, <2>2, <2>3, <2>4, BindBegins
<1>4. CASE Truncate \/ Write
  <2>1. /\ running /\ running' /\ UNCHANGED <<bindings, binds>>
        /\ writer.stage \in {"begun", "truncated"}
        /\ writer' = [writer EXCEPT !.stage = IF Truncate THEN "truncated" ELSE "written"]
        /\ Truncate => ~file'.whole
        /\ ~Truncate => file'.bindings = bindings
    BY <1>4 DEF Truncate, Write
  <2>2. /\ writer'.entrypoint = writer.entrypoint /\ writer'.previous = writer.previous
        /\ writer'.stage = IF Truncate THEN "truncated" ELSE "written"
    BY <2>1 DEF BaseInv, OwnerTypeOK
  <2>3. \A e \in Entrypoints : Committed(e)' = Committed(e)
    BY <2>1, <2>2 DEF Committed, Writing
  <2> QED BY <2>1, <2>2, <2>3
          DEF WriterBinds, ToldHolds, RepliesHold, CodesMatch, FileMatches, Writing, Bound, binds
<1>5. CASE WriteFails
  <2>1. /\ running /\ running' /\ writer.stage \in {"begun", "truncated"} /\ writer'.stage = "none"
        /\ writer.entrypoint \in Entrypoints /\ UNCHANGED <<file, binds>>
        /\ bindings' = [bindings EXCEPT ![writer.entrypoint] = writer.previous]
    BY <1>5 DEF WriteFails, WriterBinds, Writing, NoWriter
  <2>2. \A e \in Entrypoints : Committed(e)' = Committed(e)
    BY <1>0, <2>1 DEF Committed, Writing, Bindings
  <2> QED BY <2>1, <2>2
          DEF WriterBinds, ToldHolds, RepliesHold, CodesMatch, FileMatches, Writing, binds
<1>6. CASE Revoke
  <2> DEFINE e == writer.entrypoint
  <2>1. /\ e \in Entrypoints /\ running /\ running' /\ writer.stage = "written"
        /\ writer'.stage = "none" /\ UNCHANGED <<bindings, file, told, lost>>
        /\ codes' = codes \ (IF writer.previous.owner = Nobody THEN {e} ELSE {})
        /\ replies' = replies \cup {<<e, bindings[e].owner>>}
    BY <1>6 DEF Revoke, WriterBinds, Writing, NoWriter
  <2>2. /\ \A d \in Entrypoints : Committed(d)' = bindings[d]
        /\ \A d \in Entrypoints : d # e => Committed(d) = bindings[d]
        /\ Committed(e) = writer.previous
        /\ bindings[e].owner # Nobody /\ writer.previous.owner \in {Nobody, bindings[e].owner}
    BY <2>1 DEF Committed, Writing, WriterBinds, Bound
  <2>3. ToldHolds' /\ RepliesHold'
    BY <2>1, <2>2 DEF ToldHolds, RepliesHold
  <2>4. CodesMatch'
    BY <2>1, <2>2 DEF CodesMatch
  <2>5. WriterBinds' /\ FileMatches'
    BY <2>1, <2>2 DEF WriterBinds, FileMatches, Writing
  <2> QED BY <2>3, <2>4, <2>5
<1>7. ASSUME NEW e \in Entrypoints, NEW s \in Senders, BindAgain(e, s)
      PROVE  ToldIsCommitted'
  <2>1. /\ running /\ writer.stage = "none" /\ bindings[e].owner = s
        /\ UNCHANGED <<running, bindings, file, writer, codes, told, lost>>
        /\ replies' = replies \cup {<<e, s>>}
    BY <1>7 DEF BindAgain, Writing, locks
  <2>2. \A d \in Entrypoints : Committed(d)' = Committed(d) /\ Committed(d) = bindings[d]
    BY <2>1 DEF Committed, Writing
  <2> QED BY <2>1, <2>2
          DEF WriterBinds, ToldHolds, RepliesHold, CodesMatch, FileMatches, Writing, Bound
<1>8. ASSUME NEW e \in Entrypoints, NEW s \in Senders, Reply(e, s)
      PROVE  ToldIsCommitted'
  <2>1. /\ running /\ Committed(e).owner = s
        /\ UNCHANGED <<running, bindings, file, writer, codes>>
        /\ replies' = replies \ {<<e, s>>} /\ told' = [told EXCEPT ![e] = s] /\ lost' = lost \ {e}
    BY <1>8 DEF Reply, locks, RepliesHold
  <2>2. \A d \in Entrypoints : Committed(d)' = Committed(d)
    BY <2>1 DEF Committed, Writing
  <2>3. ToldHolds'
    BY <1>0, <2>1, <2>2 DEF ToldHolds
  <2> QED BY <2>1, <2>2, <2>3 DEF WriterBinds, RepliesHold, CodesMatch, FileMatches, Writing, Bound
<1>9. CASE Crash
  <2>1. /\ running /\ ~running' /\ replies' = {} /\ writer'.stage = "none"
        /\ UNCHANGED <<file, told, lost>>
    BY <1>9 DEF Crash, NoWriter
  <2>2. ASSUME NEW e \in Entrypoints \ lost, told[e] # Nobody, file.whole
        PROVE  file.bindings[e].owner = told[e]
    <3>1. Committed(e).owner = told[e]
      BY <2>1, <2>2 DEF ToldHolds
    <3>2. CASE writer.stage = "written"
      BY <2>1, <2>2, <3>1, <3>2 DEF FileMatches, Committed, WriterBinds, Writing
    <3> QED BY <1>0, <2>1, <2>2, <3>1, <3>2 DEF FileMatches
  <2>3. ToldHolds'
    BY <2>1, <2>2 DEF ToldHolds, Committed
  <2> QED BY <2>1, <2>3 DEF WriterBinds, RepliesHold, CodesMatch, FileMatches, Writing
<1>10. CASE Load
  <2>1. /\ ~running /\ running' /\ writer' = NoWriter
        /\ UNCHANGED <<file, told, replies>> /\ bindings' = file.bindings
        /\ codes' = {e \in Entrypoints : bindings'[e].owner = Nobody}
        /\ lost' = lost \cup (IF file.whole THEN {} ELSE {e \in Entrypoints : told[e] # Nobody})
    BY <1>10 DEF Load, BaseInv, DownIsEmpty, locks
  <2>2. \A e \in Entrypoints : Committed(e)' = bindings'[e] /\ Committed(e) = file.bindings[e]
    BY <2>1 DEF Committed, Writing, NoWriter
  <2>3. ToldHolds'
    BY <1>0, <2>1, <2>2 DEF ToldHolds
  <2> QED BY <2>1, <2>2, <2>3
          DEF WriterBinds, RepliesHold, CodesMatch, FileMatches, Writing, NoWriter
<1>11. ASSUME NEW e \in Entrypoints,
              \/ AskOwner(e)
              \/ \E s \in Senders : BeginAnswer(e, s) \/ StoreAnswer(e, s) \/ AnswerUnchecked(e, s)
       PROVE  UNCHANGED <<running, bindings, file, writer, binds>>
  BY <1>11 DEF AskOwner, BeginAnswer, StoreAnswer, AnswerUnchecked, locks
<1>12. ASSUME (\E k \in Calls : BeginNotify(k) \/ Emit(k) \/ EmitFails(k)) \/ UNCHANGED ownerVars
       PROVE  UNCHANGED <<running, bindings, file, writer, binds>>
  BY <1>12 DEF BeginNotify, Emit, EmitFails, ownerVars, locks
<1> QED BY <1>1, <1>2, <1>3, <1>4, <1>5, <1>6, <1>7, <1>8, <1>9, <1>10, <1>11, <1>12 DEF OwnerNext

LEMMA ToldLasts == BaseInv /\ ToldIsCommitted => SuccessLasts
<1> SUFFICES ASSUME BaseInv, ToldIsCommitted PROVE SuccessLasts
  OBVIOUS
<1> USE DEF ToldIsCommitted
<1>1. ASSUME NEW e \in Entrypoints \ lost, told[e] # Nobody
      PROVE  /\ running => bindings[e].owner = told[e]
             /\ ~running /\ file.whole => file.bindings[e].owner = told[e]
  BY <1>1 DEF ToldHolds, Committed, WriterBinds
<1>2. ASSUME running, ~Writing
      PROVE  /\ \A e \in Entrypoints : e \in codes <=> ~Bound(e)
             /\ file.whole => file.bindings = bindings
  <2>1. \A e \in Entrypoints : Committed(e) = bindings[e]
    BY <1>2 DEF Committed
  <2>2. bindings \in Bindings /\ file.bindings \in Bindings
    BY DEF BaseInv, OwnerTypeOK
  <2>3. \A e \in Entrypoints : file.whole => file.bindings[e] = bindings[e]
    BY <1>2, <2>1 DEF FileMatches, Writing
  <2> QED BY <1>2, <2>1, <2>2, <2>3 DEF CodesMatch, Bound, Bindings
<1> QED BY <1>1, <1>2 DEF SuccessLasts, BaseInv

\* Who was told to own an entrypoint owns it from then on, in memory and on disk,
\* through failing and torn writes and crashes between or inside all steps of a /bind,
\* until a start finds owner-bindings.json torn: the file is written in place
\* (persistLocked).
THEOREM BindingsLast == OwnerSpec => []SuccessLasts
<1>1. BaseInv /\ ToldIsCommitted /\ [OwnerNext]_ownerVars => ToldIsCommitted'
  BY ToldStep
<1> QED BY BaseInit, BaseStep, ToldInit, <1>1, ToldLasts, PTL DEF OwnerSpec

=============================================================================
