------------------------------- MODULE FileNames ------------------------------
(***************************************************************************)
(* How crunchMake reads the names of files: which it takes for sources,     *)
(* which for objects, and how it names what it makes of a source.           *)
(*                                                                          *)
(* A name is a sequence of pieces: the characters ".", "/" and "\\", on     *)
(* which the code splits a name, and the texts between them.                *)
(***************************************************************************)
EXTENDS Integers, Sequences

\* exts and objExts, and the extension of a library (libExt, not on Windows).
exts == {"c", "cpp", "cc", "cxx", "i", "s", "S", "sx", "asm"}
objExts == {"o", "obj", "a", "so", "dll", "dylib"}

Places(file, c) == {k \in DOMAIN file : file[k] = c}

\* stringView::rfind, in pieces; 0 is npos.
rfind(file, c) ==
    IF Places(file, c) = {} THEN 0
    ELSE CHOOSE k \in Places(file, c) : \A j \in Places(file, c) : j <= k

\* compare(dot, n, str) == 0: the comparison takes what there is of n.
Compares(file, dot, n, str) ==
    SubSeq(file, dot, IF dot + n - 1 <= Len(file) THEN dot + n - 1 ELSE Len(file)) = str

\* The text from the last "." on is one of the extensions.
checkExt(file, e) ==
    LET dot == rfind(file, ".")
    IN  dot # 0 /\ \E ext \in e : Compares(file, dot, Len(file), <<".", ext>>)

validExt(file) == checkExt(file, exts)

\* Where the name of the file itself begins.
NameBegins(file) ==
    IF rfind(file, "/") # 0 THEN rfind(file, "/") + 1
    ELSE IF rfind(file, "\\") # 0 THEN rfind(file, "\\") + 1
    ELSE 1

\* ".so." in the name of the file makes it a library with a version.
isObj(file) ==
    \/ checkExt(file, objExts)
    \/ \E dot \in Places(file, ".") :
          dot >= NameBegins(file) /\ Compares(file, dot, 3, <<".", "so", ".">>)

\* What comes before the last ".", or all of a name that has none.
Stem(file) == IF rfind(file, ".") = 0 THEN file ELSE SubSeq(file, 1, rfind(file, ".") - 1)

toO(file) == Stem(file) \o <<".", "o">>
toSO(file) == Stem(file) \o <<".", "so">>
=============================================================================
