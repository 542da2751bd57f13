---------------------------- MODULE MCSourceFetch ----------------------------
(* A repository and a download, both named twice, and a local file.            *)
EXTENDS SourceFetch

CONSTANTS repo, tarball, patch

Paths == [i \in 1..5 |-> CASE i \in {1, 4} -> repo [] i = 5 -> patch [] OTHER -> tarball]

KindOf == [f \in File |-> CASE f = repo -> "git" [] f = tarball -> "http" [] OTHER -> "file"]
==============================================================================
