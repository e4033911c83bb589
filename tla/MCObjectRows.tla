---------------------------- MODULE MCObjectRows ----------------------------
EXTENDS ObjectRows

CONSTANTS f, d, e, mine

MCKind == f :> "file" @@ d :> "dir" @@ e :> "dir" @@ mine :> "commit"

MCRefs == f :> {} @@ d :> {f} @@ e :> {d} @@ mine :> {e}

=============================================================================
