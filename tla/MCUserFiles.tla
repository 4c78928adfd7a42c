---------------------------- MODULE MCUserFiles ----------------------------
EXTENDS UserFiles, TLC

\* A file of three bytes and an empty one.
MCFileSize == 0 :> 3 @@ 1 :> 0

\* Code, then data, a hole, and a stack page right below the limit; or the
\* data page read-only because an upper level forbids writing.
MCMappings == {0 :> {"user", "exec"} @@ 1 :> {"user", "write"} @@ 2 :> {} @@ 3 :> {"user", "write"},
               0 :> {"user", "write"} @@ 1 :> {"user"} @@ 2 :> {"write"} @@ 3 :> {"user", "write"}}
=============================================================================
