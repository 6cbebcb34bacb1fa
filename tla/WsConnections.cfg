\* Two messages of one chat, over connections that come and go.
SPECIFICATION Spec
CONSTANTS
    None = None
    k1 = k1
    k2 = k2
    m1 = m1
    m2 = m2
    Conns = {c1, c2}
    Chats = {k1}
    Canonical <- MCLower
    Messages = {m1, m2}
    ChatOf <- MCOneChat
\* When all connections are closed nobody has anything to do.
CHECK_DEADLOCK FALSE
INVARIANTS
    AnswerGoesWherePromised
PROPERTIES
    AnswerFromOwner
    NotTrapped
