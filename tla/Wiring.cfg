\* Every stack of up to two layers, every catalogue of up to three modules.
CONSTANTS
    Stacks <- SmallStacks
    Catalogues <- SmallCatalogues
    Args = {None, "-addr", "-h", "help", "routes", "migrate", "makemigrations", "tidy", "mend", "typo"}
    Rests = {"ok", "help", "bad"}
    Blank = Blank
    None = None
SPECIFICATION Spec
CHECK_DEADLOCK FALSE
INVARIANTS StartsAsAsked BuildsOnlyWanted RunsTheOwner
