---------------------------- MODULE IlinkAccounts ----------------------------
(***************************************************************************)
(* The accounts of an iLink entrypoint (channelrunner/ilink/runner.go).    *)
(* An account is paired while the program runs: its user scans a code, and *)
(* a goroutine that asks for the outcome writes the account's record to a  *)
(* file, makes a poller for it, enters it in the map of accounts, and      *)
(* starts a monitor that fetches the account's messages.  It may be paired *)
(* again, deleted, and is polled again after a restart from its record, at *)
(* the cursor its last monitor saved.                                      *)
(*                                                                         *)
(* The map is behind a lock, the files are not: every operation is several *)
(* steps, a monitor that was canceled may still hand over what it had      *)
(* fetched, and the turn of a message goes on when its monitor is gone.    *)
(* Every write may fail or be cut off by a crash, and os.WriteFile has     *)
(* emptied the file by then.  The monitor is the client of the platform,   *)
(* which is not part of the program: it is modelled from the callbacks it  *)
(* is given.                                                               *)
(***************************************************************************)
EXTENDS Integers, FiniteSets

CONSTANTS
    None,
    Torn,           \* a record that cannot be parsed
    Accounts,       \* account ids
    Static,         \* those of them that the configuration has a token for
    Pairings,       \* pairing ids
    Messages,       \* messages to the accounts, and to which of them
    SentTo,
    Overlap,        \* whether operations on one account may overlap
    MaxStarts,      \* bound: starts of the program
    MaxErrors,      \* bound: failing reads, writes and monitors
    MaxDrops        \* bound: times a message fails or its hour passes

ASSUME IlinkAssumption ==
    /\ Pairings \cap Accounts = {} /\ None \notin Pairings \cup Accounts \cup Messages
    /\ Static \subseteq Accounts
    /\ SentTo \in [Messages -> Accounts]
    /\ Overlap \in BOOLEAN
    /\ MaxStarts \in Nat \ {0} /\ MaxErrors \in Nat /\ MaxDrops \in Nat

VARIABLES
    process,    \* "down", "starting" (channels, before the API), "up", "stopping"
    accounts,   \* Runner.accounts: the poller of each account
    poller,     \* accountPoller, with the monitor it has started
    pairing,    \* pairingState, with the goroutine that polls it
    deleting,   \* accounts whose record DeleteAccount is about to remove
    record,     \* the record of each account on disk: who paired it
    cursor,     \* get_updates_buf of each account: the messages it is past
    seenFile,   \* dedupe.json of each account
    handled,    \* how often a message went to the runtime
    paired,     \* how often an account got another poller in its place
    dropped,    \* how often a deduper or its file lost its note of a message
    unsaved,    \* accounts whose record could not be written or removed
    starts, errors

vars == <<process, accounts, poller, pairing, deleting, record, cursor, seenFile, handled, paired,
          dropped, unsaved, starts, errors>>
files == <<record, cursor, seenFile>>
ghosts == <<handled, paired, dropped, unsaved>>

----------------------------------------------------------------------------
(* Pollers and pairings                                                    *)

\* A poller is named after the pairing that made it, or after the account that
\* the configuration or a record made it for.
Pollers == Pairings \cup Accounts

\* newAccountPoller: the deduper reads its file when the poller is made.
Fresh(a) == [account |-> a, monitor |-> "none", canceled |-> FALSE, registered |-> FALSE,
             seen |-> seenFile[a], working |-> {}, past |-> {}, fetched |-> None, due |-> {}]

NoPoller == [account |-> None, monitor |-> "none", canceled |-> FALSE, registered |-> FALSE,
             seen |-> {}, working |-> {}, past |-> {}, fetched |-> None, due |-> {}]

NoPairing == [status |-> "none", stage |-> "none", account |-> None]

\* account.cancel: it is there from the start of the monitor until it has ended.
Canceled(w) == IF poller[w].registered THEN [poller[w] EXCEPT !.canceled = TRUE] ELSE poller[w]

Live(w) == poller[w].monitor = "live"

Busy(a) ==
    \/ \E p \in Pairings : pairing[p].account = a /\ pairing[p].stage # "ended"
    \/ a \in deleting

\* runCtx, which Stop takes away.
Running == process = "up"

\* What os.WriteFile may leave of a file when it fails or is cut off.
Wreck(old, new, empty) == {old, new, empty}

----------------------------------------------------------------------------
(* Pairing                                                                 *)

\* CreatePairing, over the HTTP API.
CreatePairing(p) ==
    /\ process = "up" /\ pairing[p] = NoPairing
    /\ pairing' = [pairing EXCEPT ![p] = [status |-> "wait", stage |-> "poll", account |-> None]]
    /\ UNCHANGED <<process, accounts, poller, deleting, files, ghosts, starts, errors>>

Ended(p, status) ==
    pairing' = [pairing EXCEPT ![p].status = status, ![p].stage = "ended"]

\* pollPairing: the code was scanned, has expired, or asking for its status
\* failed; or the program is stopping.
PollQRStatus(p) ==
    /\ pairing[p].stage = "poll"
    /\ \/ /\ pairing[p].status = "wait"
          /\ pairing' = [pairing EXCEPT ![p].status = "scaned"]
       \/ Ended(p, "expired") \/ Ended(p, "failed")
       \/ process = "stopping" /\ Ended(p, pairing[p].status)
    /\ UNCHANGED <<process, accounts, poller, deleting, files, ghosts, starts, errors>>

\* The user has confirmed, and the platform names the account.
Confirmed(p, a) ==
    /\ pairing[p].stage = "poll"
    /\ Overlap \/ ~Busy(a)
    /\ pairing' = [pairing EXCEPT ![p].stage = "save", ![p].account = a]
    /\ UNCHANGED <<process, accounts, poller, deleting, files, ghosts, starts, errors>>

\* Fault model: an account that exists keeps its record.
SaveNewAccount(p) ==
    LET a == pairing[p].account IN
    /\ pairing[p].stage = "save"
    /\ record' = [record EXCEPT ![a] = IF accounts[a] = None THEN p ELSE @]
    /\ poller' = [poller EXCEPT ![p] = Fresh(a)]
    /\ pairing' = [pairing EXCEPT ![p].stage = "register"]
    /\ unsaved' = unsaved \ {a}
    /\ UNCHANGED <<process, accounts, deleting, cursor, seenFile, handled, paired, dropped, starts, errors>>

\* addAccount: saveAccount, without the lock, and the poller that is made next.  A
\* write that fails ends the pairing; the record it was to replace is in the map.
SaveAccount(p) ==
    LET a == pairing[p].account IN
    /\ pairing[p].stage = "save"
    /\ \/ /\ record' = [record EXCEPT ![a] = p]
          /\ poller' = [poller EXCEPT ![p] = Fresh(a)]
          /\ pairing' = [pairing EXCEPT ![p].stage = "register"]
          /\ unsaved' = unsaved \ {a}
          /\ UNCHANGED errors
       \/ /\ errors < MaxErrors /\ errors' = errors + 1
          /\ \E r \in Wreck(record[a], p, Torn) : record' = [record EXCEPT ![a] = r]
          /\ Ended(p, "failed")
          /\ unsaved' = unsaved \cup {a}
          /\ UNCHANGED poller
    /\ UNCHANGED <<process, accounts, deleting, cursor, seenFile, handled, paired, dropped, starts>>

\* Fault model: the poller that is replaced goes on.
RegisterBeside(p) ==
    LET a == pairing[p].account IN
    /\ pairing[p].stage = "register"
    /\ accounts' = [accounts EXCEPT ![a] = p]
    /\ pairing' = [pairing EXCEPT ![p].stage = IF Running THEN "start" ELSE "report"]
    /\ paired' = [paired EXCEPT ![a] = @ + 1]
    /\ UNCHANGED <<process, poller, deleting, files, handled, dropped, unsaved, starts, errors>>

\* addAccount, under the lock: the poller takes the place of another one, whose
\* monitor is canceled if it has one.  Without runCtx that is all.
Register(p) ==
    LET a == pairing[p].account
        old == accounts[a]
    IN
    /\ pairing[p].stage = "register"
    /\ accounts' = [accounts EXCEPT ![a] = p]
    /\ poller' = IF old = None THEN poller ELSE [poller EXCEPT ![old] = Canceled(old)]
    /\ pairing' = [pairing EXCEPT ![p].stage = IF Running THEN "start" ELSE "report"]
    /\ paired' = [paired EXCEPT ![a] = @ + 1]
    /\ UNCHANGED <<process, deleting, files, handled, dropped, unsaved, starts, errors>>

\* startAccount: a monitor is started where the last one saved its cursor.  While
\* the program stops its context is canceled from the beginning.
Launched(w) ==
    [poller[w] EXCEPT !.monitor = "live", !.registered = TRUE, !.canceled = process = "stopping",
                      !.past = cursor[poller[w].account]]

\* It may fail to read the cursor: the pairing has failed, the account is there.
StartAccount(p) ==
    /\ pairing[p].stage = "start"
    /\ \/ /\ poller' = [poller EXCEPT ![p] = Launched(p)]
          /\ pairing' = [pairing EXCEPT ![p].stage = "report"]
          /\ UNCHANGED errors
       \/ /\ errors < MaxErrors /\ errors' = errors + 1
          /\ Ended(p, "failed")
          /\ UNCHANGED poller
    /\ UNCHANGED <<process, accounts, deleting, files, ghosts, starts>>

Report(p) ==
    /\ pairing[p].stage = "report"
    /\ \/ Ended(p, "confirmed")
       \/ process = "stopping" /\ Ended(p, "failed")
    /\ UNCHANGED <<process, accounts, poller, deleting, files, ghosts, starts, errors>>

AddAccount(p) == SaveAccount(p) \/ Register(p) \/ StartAccount(p) \/ Report(p)

----------------------------------------------------------------------------
(* Deletion                                                                *)

\* DeleteAccount, under the lock.
DeleteAccount(a) ==
    /\ process = "up" /\ accounts[a] # None
    /\ Overlap \/ ~Busy(a)
    /\ poller' = [poller EXCEPT ![accounts[a]] = Canceled(accounts[a])]
    /\ accounts' = [accounts EXCEPT ![a] = None]
    /\ deleting' = deleting \cup {a}
    /\ UNCHANGED <<process, pairing, files, ghosts, starts, errors>>

\* And the file, without it.  When that fails the caller is told; if it calls
\* again there is no such account any more.
RemoveRecord(a) ==
    /\ a \in deleting
    /\ deleting' = deleting \ {a}
    /\ \/ /\ record' = [record EXCEPT ![a] = None]
          /\ unsaved' = unsaved \ {a}
          /\ UNCHANGED errors
       \/ /\ errors < MaxErrors /\ errors' = errors + 1
          /\ unsaved' = unsaved \cup {a}
          /\ UNCHANGED record
    /\ UNCHANGED <<process, accounts, poller, pairing, cursor, seenFile, handled, paired, dropped, starts>>

----------------------------------------------------------------------------
(* Monitors and the turns of their messages                                *)

\* persistLocked, when the poller's deduper comes to know the messages `seen`: the
\* caller does not look at its error.
Persist(w, seen) ==
    LET a == poller[w].account IN
    /\ \/ seenFile' = [seenFile EXCEPT ![a] = seen] /\ UNCHANGED errors
       \/ /\ errors < MaxErrors /\ errors' = errors + 1
          /\ \E f \in Wreck(seenFile[a], seen, {}) : seenFile' = [seenFile EXCEPT ![a] = f]
    /\ LET lost == (poller[w].seen \cup seen) \ (seen \cap seenFile'[a]) IN
       dropped' = [m \in Messages |-> IF m \in lost THEN dropped[m] + 1 ELSE dropped[m]]

\* The monitor fetches a message it is not past.  It will hand it over and report
\* its new cursor, in an order the program has no say in.
Fetch(w, m) ==
    /\ Live(w) /\ ~poller[w].canceled /\ poller[w].due = {}
    /\ SentTo[m] = poller[w].account /\ m \notin poller[w].past
    /\ poller' = [poller EXCEPT ![w].fetched = m, ![w].due = {"message", "cursor"}]
    /\ UNCHANGED <<process, accounts, pairing, deleting, files, ghosts, starts, errors>>

\* handleMessage: a message the poller's deduper does not know goes to the runtime,
\* where its turn begins or it steers the one that is going on; either way the
\* deduper writes its file.
HandleMessage(w) ==
    LET m == poller[w].fetched
        new == {m} \ poller[w].seen
    IN
    /\ Live(w) /\ "message" \in poller[w].due
    /\ poller' = [poller EXCEPT ![w].due = @ \ {"message"}, ![w].seen = @ \cup {m},
                                ![w].working = @ \cup new]
    /\ Persist(w, poller[w].seen \cup {m})
    /\ handled' = [n \in Messages |-> IF n \in new THEN handled[n] + 1 ELSE handled[n]]
    /\ UNCHANGED <<process, accounts, pairing, deleting, record, cursor, paired, unsaved, starts>>

\* The turn of a message ends, whatever has become of its monitor: Complete, or
\* Forget if the turn has failed.  That of a message that steered another turn never
\* comes to this.
Settle(w, m) ==
    /\ m \in poller[w].working
    /\ \E seen \in {poller[w].seen \cup {m}} \cup
                    (IF dropped[m] < MaxDrops THEN {poller[w].seen \ {m}} ELSE {}) :
          /\ poller' = [poller EXCEPT ![w].working = @ \ {m}, ![w].seen = seen]
          /\ Persist(w, seen)
    /\ UNCHANGED <<process, accounts, pairing, deleting, record, cursor, handled, paired, unsaved, starts>>

\* The hour of a message is over: a deduper does not know it any more, or will not
\* find it in its file.
Expire(w, m) ==
    /\ m \in poller[w].seen /\ dropped[m] < MaxDrops
    /\ poller' = [poller EXCEPT ![w].seen = @ \ {m}]
    /\ dropped' = [dropped EXCEPT ![m] = @ + 1]
    /\ UNCHANGED <<process, accounts, pairing, deleting, files, handled, paired, unsaved, starts, errors>>

ExpireOnDisk(a, m) ==
    /\ m \in seenFile[a] /\ dropped[m] < MaxDrops
    /\ seenFile' = [seenFile EXCEPT ![a] = @ \ {m}]
    /\ dropped' = [dropped EXCEPT ![m] = @ + 1]
    /\ UNCHANGED <<process, accounts, poller, pairing, deleting, record, cursor, handled, paired,
                   unsaved, starts, errors>>

\* OnBufUpdate: saveSyncBuf, which may fail; the monitor knows its cursor anyway.
SaveSyncBuf(w) ==
    LET a == poller[w].account
        past == poller[w].past \cup {poller[w].fetched}
    IN
    /\ Live(w) /\ "cursor" \in poller[w].due
    /\ poller' = [poller EXCEPT ![w].due = @ \ {"cursor"}, ![w].past = past]
    /\ \/ cursor' = [cursor EXCEPT ![a] = past] /\ UNCHANGED errors
       \/ /\ errors < MaxErrors /\ errors' = errors + 1
          /\ \E c \in Wreck(cursor[a], past, {}) : cursor' = [cursor EXCEPT ![a] = c]
    /\ UNCHANGED <<process, accounts, pairing, deleting, record, seenFile, ghosts, starts>>

\* A canceled monitor returns; what it had fetched it may hand over before.
MonitorStops(w) ==
    /\ Live(w) /\ poller[w].canceled
    /\ poller' = [poller EXCEPT ![w].monitor = "stopped", ![w].registered = FALSE,
                                ![w].fetched = None, ![w].due = {}]
    /\ UNCHANGED <<process, accounts, pairing, deleting, files, ghosts, starts, errors>>

\* One that fails leaves its poller as it is, running to all appearances.
MonitorFails(w) ==
    /\ Live(w) /\ ~poller[w].canceled
    /\ errors < MaxErrors /\ errors' = errors + 1
    /\ poller' = [poller EXCEPT ![w].monitor = "stopped", ![w].fetched = None, ![w].due = {}]
    /\ UNCHANGED <<process, accounts, pairing, deleting, files, ghosts, starts>>

----------------------------------------------------------------------------
(* The program                                                             *)

\* NewRunner and loadPersistedAccounts: an account with a token in the
\* configuration has its poller before the records are read.  One that cannot be
\* parsed ends the program.
Start ==
    /\ process = "down" /\ starts < MaxStarts
    /\ starts' = starts + 1
    /\ LET loaded == {a \in Accounts : a \in Static \/ record[a] # None} IN
       IF \E a \in Accounts : record[a] = Torn
       THEN UNCHANGED <<process, accounts, poller>>
       ELSE /\ process' = "starting"
            /\ accounts' = [a \in Accounts |-> IF a \in loaded THEN a ELSE None]
            /\ poller' = [w \in Pollers |-> IF w \in loaded THEN Fresh(w) ELSE NoPoller]
    /\ unsaved' = {}
    /\ UNCHANGED <<pairing, deleting, files, handled, paired, dropped, errors>>

\* The account is in the map, and its monitor has not been started.
NotStarted(a) == accounts[a] = a /\ poller[a].monitor = "none"

\* Fault model: only accounts of the configuration are started.
StartNextStatic(a) ==
    /\ process = "starting" /\ a \in Static /\ NotStarted(a)
    /\ poller' = [poller EXCEPT ![a] = Launched(a)]
    /\ UNCHANGED <<process, accounts, pairing, deleting, files, ghosts, starts, errors>>

\* Nothing of a program that has ended is left but its files.
Gone ==
    /\ process' = "down"
    /\ accounts' = [a \in Accounts |-> None]
    /\ poller' = [w \in Pollers |-> NoPoller]
    /\ pairing' = [p \in Pairings |-> IF pairing[p] = NoPairing THEN NoPairing
                                      ELSE [pairing[p] EXCEPT !.stage = "ended"]]
    /\ deleting' = {}

\* Start, for one account after the other; then the API is served.  A cursor that
\* cannot be read ends the program.
StartNext(a) ==
    /\ process = "starting" /\ NotStarted(a)
    /\ \/ /\ poller' = [poller EXCEPT ![a] = Launched(a)]
          /\ UNCHANGED <<process, accounts, pairing, deleting, errors>>
       \/ /\ errors < MaxErrors /\ errors' = errors + 1
          /\ Gone
    /\ UNCHANGED <<files, ghosts, starts>>

Serve ==
    /\ process = "starting"
    /\ \A a \in Accounts : ~NotStarted(a)
    /\ process' = "up"
    /\ UNCHANGED <<accounts, poller, pairing, deleting, files, ghosts, starts, errors>>

\* A signal cancels the context of all monitors, also of those that no account
\* knows any more, and Stop takes runCtx away.
Stop ==
    /\ process = "up" /\ starts < MaxStarts
    /\ process' = "stopping"
    /\ poller' = [w \in Pollers |-> IF Live(w) THEN [poller[w] EXCEPT !.canceled = TRUE] ELSE poller[w]]
    /\ UNCHANGED <<accounts, pairing, deleting, files, ghosts, starts, errors>>

\* A write that the end of the program cuts off has emptied its file.
CutOff ==
    \/ /\ \E p \in Pairings : /\ pairing[p].stage = "save"
                              /\ record' = [record EXCEPT ![pairing[p].account] = Torn]
       /\ UNCHANGED <<cursor, seenFile, dropped>>
    \/ \E w \in Pollers :
          /\ "cursor" \in poller[w].due
          /\ cursor' = [cursor EXCEPT ![poller[w].account] = {}]
          /\ UNCHANGED <<record, seenFile, dropped>>
    \/ \E w \in Pollers : LET a == poller[w].account IN
          /\ "message" \in poller[w].due \/ poller[w].working # {}
          /\ seenFile' = [seenFile EXCEPT ![a] = {}]
          /\ dropped' = [m \in Messages |-> IF m \in seenFile[a] THEN dropped[m] + 1 ELSE dropped[m]]
          /\ UNCHANGED <<record, cursor>>

\* The program ends, after a signal or in a crash.
Exit ==
    /\ process # "down" /\ starts < MaxStarts
    /\ Gone
    /\ CutOff \/ UNCHANGED <<files, dropped>>
    /\ UNCHANGED <<handled, paired, unsaved, starts, errors>>

Init ==
    /\ process = "down"
    /\ accounts = [a \in Accounts |-> None]
    /\ poller = [w \in Pollers |-> NoPoller]
    /\ pairing = [p \in Pairings |-> NoPairing]
    /\ deleting = {} /\ unsaved = {}
    /\ record = [a \in Accounts |-> None]
    /\ cursor = [a \in Accounts |-> {}]
    /\ seenFile = [a \in Accounts |-> {}]
    /\ handled = [m \in Messages |-> 0]
    /\ paired = [a \in Accounts |-> 0]
    /\ dropped = [m \in Messages |-> 0]
    /\ starts = 0 /\ errors = 0

Monitor(w) == (\E m \in Messages : Fetch(w, m)) \/ HandleMessage(w) \/ SaveSyncBuf(w)

Next ==
    \/ Start \/ Serve \/ Stop \/ Exit
    \/ \E p \in Pairings : \/ CreatePairing(p) \/ PollQRStatus(p) \/ AddAccount(p)
                           \/ \E a \in Accounts : Confirmed(p, a)
    \/ \E a \in Accounts : DeleteAccount(a) \/ RemoveRecord(a) \/ StartNext(a)
    \/ \E w \in Pollers : \/ Monitor(w) \/ MonitorStops(w) \/ MonitorFails(w)
                          \/ \E m \in Messages : Settle(w, m) \/ Expire(w, m)
    \/ \E a \in Accounts, m \in Messages : ExpireOnDisk(a, m)

\* A program that stops ends, one that has ended is started again, goroutines go
\* on, and a monitor that is canceled returns in the end.
Fairness ==
    /\ WF_vars(Start) /\ WF_vars(Serve) /\ WF_vars(process = "stopping" /\ Exit)
    /\ \A a \in Accounts : WF_vars(StartNext(a)) /\ WF_vars(RemoveRecord(a))
    /\ \A p \in Pairings : WF_vars(AddAccount(p))
    /\ \A w \in Pollers : WF_vars(Monitor(w)) /\ WF_vars(MonitorStops(w))

Spec == Init /\ [][Next]_vars /\ Fairness

----------------------------------------------------------------------------
(* What the owner of an account may rely on                                *)

TypeOK ==
    /\ process \in {"down", "starting", "up", "stopping"}
    /\ accounts \in [Accounts -> Pollers \cup {None}]
    /\ poller \in [Pollers -> [account : Accounts \cup {None}, monitor : {"none", "live", "stopped"},
                              canceled : BOOLEAN, registered : BOOLEAN,
                              seen : SUBSET Messages, working : SUBSET Messages, past : SUBSET Messages,
                              fetched : Messages \cup {None}, due : SUBSET {"message", "cursor"}]]
    /\ \A w \in Pollers : Live(w) => poller[w].registered
    /\ pairing \in [Pairings -> [status : {"none", "wait", "scaned", "confirmed", "expired", "failed"},
                                 stage : {"none", "poll", "save", "register", "start", "report", "ended"},
                                 account : Accounts \cup {None}]]
    /\ deleting \subseteq Accounts /\ unsaved \subseteq Accounts
    /\ record \in [Accounts -> Pairings \cup {None, Torn}]
    /\ cursor \in [Accounts -> SUBSET Messages] /\ seenFile \in [Accounts -> SUBSET Messages]
    /\ handled \in [Messages -> Nat] /\ paired \in [Accounts -> Nat]
    /\ dropped \in [Messages -> Nat]
    /\ starts \in 0..MaxStarts /\ errors \in 0..MaxErrors

\* The state is well-formed, and an account has one monitor: that of its poller
\* in the map, next to others only that were canceled.  One that was deleted or
\* replaced is not polled any more, and a message is handled again only if the
\* account was paired again meanwhile, or its turn failed, its hour passed, or the
\* note of it was lost with a file.
PolledOnce ==
    /\ TypeOK
    /\ \A w \in Pollers : Live(w) /\ ~poller[w].canceled => accounts[poller[w].account] = w
    /\ \A m \in Messages : handled[m] <= 1 + paired[SentTo[m]] + dropped[m]

\* What is on disk is what is in the map: an account that was paired is there
\* after a restart, as it was paired last, and one that was deleted is not, unless
\* the last write or removal of its record was reported to have failed.
SurvivesRestart ==
    process = "up" =>
        \A a \in Accounts : ~Busy(a) /\ a \notin unsaved =>
            /\ accounts[a] \in Pairings => record[a] = accounts[a]
            /\ accounts[a] = a => record[a] # None \/ a \in Static
            /\ accounts[a] = None => record[a] = None

Polled(a) ==
    /\ accounts[a] # None
    /\ Live(accounts[a]) /\ ~poller[accounts[a]].canceled

\* An account that was paired is polled in the end, across crashes and restarts,
\* until it is deleted, unless a monitor, a read or a write has failed, or a record
\* was cut off: the program does not start with one it cannot parse.
PairedIsPolled ==
    \A a \in Accounts :
        record[a] # None ~> \/ Polled(a) \/ record[a] = None \/ errors > 0
                            \/ \E b \in Accounts : record[b] = Torn

=============================================================================
