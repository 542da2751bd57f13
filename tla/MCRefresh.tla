------------------------------- MODULE MCRefresh -------------------------------
(* A World is a host's configuration for one package format and what its        *)
(* repository serves: mirrors in order, from a mirror list or not; scheme of    *)
(* the URL; names that carry the generation (hashed, renames); the Release:     *)
(* inline, signature, the source's Signed-By and the opt-in; variants of        *)
(* compression listed; sums in repomd.xml of a kind that is checked; what the   *)
(* index says of a package that can be checked.                                 *)
EXTENDS Refresh

World ==
    [format |-> "apt", indexes |-> {"main"}, mirrors |-> <<"m1">>, lagging |-> {}, mirrorList |-> FALSE,
     dotted |-> FALSE, scheme |-> "http", hashed |-> FALSE, renames |-> TRUE, inline |-> TRUE,
     signature |-> "valid", variants |-> 2, signedBy |-> [kind |-> "file", keys |-> {"signer"}],
     allowUnverified |-> FALSE, sums |-> TRUE, checks |-> {"size", "sum"}, updates |-> TRUE, config |-> <<>>]

Keyrings ==
    {[kind |-> "file", keys |-> {"signer"}], [kind |-> "unset", keys |-> {"other"}],
     [kind |-> "dir", keys |-> {}], [kind |-> "missing", keys |-> {}]}

\* Every decision on a Release, with one compression over https; two
\* compressions over http; two components of one Release.
AptWorlds ==
    {[World EXCEPT !.signature = s, !.signedBy = k, !.allowUnverified = a, !.inline = n, !.variants = 1,
                   !.scheme = "https"] :
        s \in {"valid", "broken", "none"}, k \in Keyrings, a \in BOOLEAN, n \in BOOLEAN}
    \cup {[World EXCEPT !.renames = r] : r \in BOOLEAN}
    \cup {[World EXCEPT !.variants = 1, !.renames = FALSE, !.checks = c] : c \in SUBSET {"size", "sum"}}
    \cup {[World EXCEPT !.indexes = {"main", "universe"}, !.variants = 1]}

\* One server; two of a mirror list, of which one stays behind.
DnfWorlds ==
    {[World EXCEPT !.format = "dnf", !.hashed = h, !.sums = s # {}, !.checks = s, !.renames = h] :
         h \in BOOLEAN, s \in SUBSET {"sum"}}
    \cup {[World EXCEPT !.format = "dnf", !.mirrors = <<"m1", "m2">>, !.lagging = {m}, !.mirrorList = TRUE,
                         !.dotted = TRUE, !.hashed = h] :
             h \in BOOLEAN, m \in Mirrors}

OtherWorlds ==
    {[World EXCEPT !.format = "apk", !.renames = r, !.checks = c] : r \in BOOLEAN, c \in SUBSET {"size"}}
    \cup {[World EXCEPT !.format = "pacman", !.mirrors = <<"m1", "m2">>,
                         !.config = <<[key |-> "Server", servers |-> <<"m1">>, there |-> TRUE],
                                      [key |-> "Include", servers |-> <<"m2">>, there |-> t]>>] :
             t \in BOOLEAN}
    \cup {[World EXCEPT !.format = "pacman", !.indexes = {"main", "universe"},
                         !.config = <<[key |-> "Server", servers |-> <<"m1">>, there |-> TRUE]>>]}

MCWorlds == AptWorlds \cup DnfWorlds \cup OtherWorlds

MCAnswers ==
    {<<"sent">>, <<"busy", "sent">>, <<"broken", "broken", "broken">>, <<"busy">>, <<"limited", "limited", "limited">>, <<"denied">>, <<"other">>,
     <<"too_large">>}
===============================================================================
