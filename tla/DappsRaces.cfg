SPECIFICATION Spec
CONSTANTS
    NoDapp = NoDapp
    Ids = {d1, d2}
    defi = defi
    play = play
    game = game
    Categories = {defi}
    Tools = {play}
    Capabilities = {game}
    Infers <- InfersGames
    Legacy <- OldEntries
    Requests = {r1, r2}
    MaxEdits = 2
SYMMETRY Sym
INVARIANTS TypeOK EditsKept CategoriesHaveTabs RunToolsGranted
CHECK_DEADLOCK FALSE
