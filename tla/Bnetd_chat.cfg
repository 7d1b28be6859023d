SPECIFICATION Spec
CONSTANTS
    Conns = {c1, c2, c3}
    Accounts = {a1, a2, a3}
    NoConn = NoConn
    NoAccount = NoAccount
    KickOldLogin = TRUE
    Rooms = {"lobby-1", "lobby-2", "void", "own"}
    NoRoom = NoRoom
    Short <- MCShort
    CopyNo <- MCCopyNo
    Configured <- MCConfigured
    Permanent <- MCPermanent
    Void = "void"
    Cap <- MCCap
    Ops = {a1}
    Muted = {}
    Games = {}
    NoGame = NoGame
    GameNames = {}
    Statuses = {}
    Results = {}
    Novices = {}
SYMMETRY ChatSymmetry
INVARIANTS
    TypeOK
    OneLogin
    ListsAgree
    RoomFits
    BannedStayOut
    ViewsFollow
PROPERTIES
    RejoinsAll
