CONSTANTS
    Actors = {a1, a2}
    Namespaces = {default, tenant}
    Default = default
    MaxEntries = 2
    Starts = {"delete", "add", "ingest", "foreign", "retry", "reindex", "metadata",
              "import", "mcp", "sync", "syncdrop", "patch", "rewrite", "erase", "prune"}
SPECIFICATION MCSpec
INVARIANTS TypeOK DropExcludesWriters DeletedStaysGone RowsOwned
SYMMETRY Symmetry
