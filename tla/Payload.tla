-------------------------------- MODULE Payload --------------------------------
(* What a package archive holds and how each installer puts an entry on disk.  *)
(* A payload is a sequence of entries [path, type, to]: "reg" and "conf" are    *)
(* regular files, conf one that the deb's conffiles names, "symlink" and        *)
(* "hardlink" name their target in to, and "skip" is an entry safepath refuses, *)
(* a device or a fifo, all of which are passed over with a warning.             *)
(* A path on disk is Absent, Torn, or a file or a link of a package's version.  *)
EXTENDS Naturals, Sequences

CONSTANT NoPackage

Absent == [kind |-> "absent", of |-> NoPackage, version |-> 0]
Torn   == [kind |-> "torn", of |-> NoPackage, version |-> 0]

File(p, v) == [kind |-> "file", of |-> p, version |-> v]
Link(p, v) == [kind |-> "link", of |-> p, version |-> v]

EntryTypes == {"reg", "conf", "symlink", "hardlink", "skip"}

IsData(e) == e.type \in {"reg", "conf"}

\* Entries that parseDataTar and extractRPMWithHeader list as files of a package.
Listed(payload) == {payload[n].path : n \in {m \in DOMAIN payload : payload[m].type # "skip"}}

\* extractTarFile leaves an existing conffile alone, whatever it holds.
KeptByDpkg(fs, e) == e.type = "conf" /\ fs[e.path] # Absent

\* extractTarSymlink replaces; extractTarHardlink links or copies its target.
DebLinks(fs, p, v, e) ==
    CASE e.type = "symlink"  -> [fs EXCEPT ![e.path] = Link(p, v)]
      [] e.type = "hardlink" -> [fs EXCEPT ![e.path] = fs[e.to]]
      [] OTHER               -> fs

\* The hardlinks to an rpm's file that came before its data: the cpio payload
\* gives them in any order, and hardlinkTracker keeps them.
Placeholders(payload, n) ==
    {payload[m].path : m \in {j \in 1..(n - 1) :
        payload[j].type = "hardlink" /\ payload[j].to = payload[n].path}}

DataWritten(payload, n, path) == \E m \in 1..(n - 1) : IsData(payload[m]) /\ payload[m].path = path

\* writeRegularFile renames a finished ".rpm-new" into place, and then
\* materializeData makes the links that waited for it.
RpmPlace(fs, p, v, payload, n) ==
    LET e == payload[n] IN
    CASE IsData(e) ->
            [f \in DOMAIN fs |-> IF f = e.path \/ f \in Placeholders(payload, n)
                                 THEN File(p, v) ELSE fs[f]]
      [] e.type = "symlink" -> [fs EXCEPT ![e.path] = Link(p, v)]
      [] e.type = "hardlink" /\ DataWritten(payload, n, e.to) ->
            [fs EXCEPT ![e.path] = fs[e.to]]
      [] OTHER -> fs

\* extractAPKRegular renames a finished ".apk-new"; a symlink that is already
\* there stays as it is.
ApkPlace(fs, p, v, e) ==
    CASE IsData(e)              -> [fs EXCEPT ![e.path] = File(p, v)]
      [] e.type = "symlink"     -> [fs EXCEPT ![e.path] = IF @ = Absent THEN Link(p, v) ELSE @]
      [] e.type = "hardlink"    -> [fs EXCEPT ![e.path] = fs[e.to]]
      [] OTHER                  -> fs

\* A deb's or an apk's hardlink to a file that is not there cannot be made.
LinkBroken(fs, e) == e.type = "hardlink" /\ fs[e.to] = Absent
================================================================================
