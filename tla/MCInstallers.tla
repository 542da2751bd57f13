----------------------------- MODULE MCInstallers -----------------------------
(* Two processes install an application and the library it needs.              *)
EXTENDS Installers

CONSTANTS a, b, lib, app, none

MCRequires == [p \in Package |-> IF p = app THEN {lib} ELSE {}]

Entry(path, type, to) == [path |-> path, type |-> type, to |-> to]

MCContents == [p \in Package |->
    IF p = lib THEN <<Entry("so", "reg", "so"), Entry("so.link", "symlink", "so"),
                      Entry("so.1", "hardlink", "so")>>
               ELSE <<Entry("bin", "reg", "bin"), Entry("rc", "conf", "rc")>>]

MCResolve(f, names, installed) ==
    [unresolved |-> FALSE,
     plan |-> IF names[1] = lib THEN IF lib \in installed THEN <<>> ELSE <<lib>>
              ELSE IF app \in installed THEN <<>> ELSE IF lib \in installed THEN <<app>> ELSE <<lib, app>>]

MCRequest == {<<app>>}
================================================================================
