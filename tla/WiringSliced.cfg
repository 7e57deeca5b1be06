\* The same processes, and what their migration commands do.
CONSTANTS
    Stacks <- SmallStacks
    Catalogues <- SmallCatalogues
    Args = {None, "-addr", "-h", "help", "routes", "migrate", "makemigrations", "tidy", "mend", "typo"}
    Rests = {"ok", "help", "bad"}
    Blank = Blank
    None = None
SPECIFICATION Spec
CHECK_DEADLOCK FALSE
INVARIANT SubsetNeverMigrates
