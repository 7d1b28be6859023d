SPECIFICATION Spec
CONSTANTS
    Conns = {c1, c2}
    Accounts = {a1, a2}
    NoConn = NoConn
    NoAccount = NoAccount
    KickOldLogin = TRUE
    Rooms = {"void"}
    NoRoom = NoRoom
    Short <- MCShort
    CopyNo <- MCCopyNo
    Configured <- MCConfigured
    Permanent <- MCPermanent
    Void = "void"
    Cap <- MCCap
    Ops = {}
    Muted = {}
    Games = {g1}
    NoGame = NoGame
    GameNames = {n1}
    Statuses = {"open", "full", "started", "done"}
    Results = {"win"}
    Novices = {}
INVARIANTS
    CreditOnce
