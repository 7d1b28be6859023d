SPECIFICATION Spec
CONSTANTS
    Conns = {c1, c2}
    Accounts = {a1, a2}
    NoConn = NoConn
    NoAccount = NoAccount
    KickOldLogin = TRUE
    Rooms = {"void"}
    NoRoom = NoRoom
    Short <- MCShort
    CopyNo <- MCCopyNo
    Configured <- MCConfigured
    Permanent <- MCPermanent
    Void = "void"
    Cap <- MCCap
    Ops = {}
    Muted = {}
    Games = {g1, g2}
    NoGame = NoGame
    GameNames = {n1, n2}
    Statuses = {"open", "full", "started", "done"}
    Results = {"win"}
    Novices = {a2}
SYMMETRY GameSymmetry
INVARIANTS
    RosterExact
    NoTwinGames
PROPERTIES
    MatchesSpec
