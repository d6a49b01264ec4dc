-------------------------- MODULE MCDapperIngest --------------------------
(***************************************************************************)
(* Instances of DapperIngest for TLC.                                      *)
(***************************************************************************)
EXTENDS DapperIngest, TLC

CONSTANTS c1, c2, m1, m2, m3, m4, f1, f2, f3, k1, k2, k3

Processes == Permutations(Consumers)

\* Two clean files announced together, a duplicate of that notification, and a
\* message of S3 that has no Records.
CleanKind == (m1 :> "records" @@ m2 :> "records" @@ m3 :> "norecords")
CleanFilesOf == (m1 :> <<f1, f2>> @@ m2 :> <<f1, f2>> @@ m3 :> <<>>)
CleanContent == (f1 :> <<k1, k2>> @@ f2 :> <<k3>>)

\* Files that share primary keys in opposite orders, one of them with a bad
\* last line, one that repeats a key, and a body that is not JSON.
DirtyKind == (m1 :> "records" @@ m2 :> "records" @@ m3 :> "records" @@ m4 :> "notjson")
DirtyFilesOf == (m1 :> <<f1>> @@ m2 :> <<f2>> @@ m3 :> <<f2, f3>> @@ m4 :> <<>>)
DirtyContent == (f1 :> <<k1, k2>> @@ f2 :> <<k2, k1>> @@ f3 :> <<k3, BadLine>>)
=============================================================================
