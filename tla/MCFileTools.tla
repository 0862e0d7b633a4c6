----------------------------- MODULE MCFileTools ----------------------------
(* Files a and b, the names they go to, and an archive; c is on another    *)
(* drive.  Commands have one or two arguments, or a directory of two files.*)
EXTENDS FileTools

Paths == {"a", "b", "a.gz", "a.z", "b.gz", "m.zip", "x", "y"}
Contents == {"A", "B", "old", "older"}
Volumes == [p \in Paths |-> IF p \in {"x", "y"} THEN "D" ELSE "C"]

Raw(t) == Whole("raw", <<t>>)
Both(p, q) == [src |-> p, dst |-> q]
Sets == [force: BOOLEAN, ask: BOOLEAN, noClobber: BOOLEAN, keep: BOOLEAN, big: BOOLEAN]
Plain == [force |-> FALSE, ask |-> FALSE, noClobber |-> FALSE, keep |-> TRUE, big |-> FALSE]

With(tool, args, flags) ==
  [tool |-> tool, units |-> args, force |-> flags.force, ask |-> flags.ask,
   noClobber |-> flags.noClobber, keep |-> flags.keep, big |-> flags.big]

GzFlags == {f \in Sets : ~f.ask /\ ~f.noClobber /\ ~f.big}
MvFlags == {f \in Sets : f.keep /\ ~f.big}
CpFlags == {f \in Sets : f.keep}
ZipFlags == {f \in Sets : f = [Plain EXCEPT !.keep = f.keep]}
UnzipFlags == {f \in Sets : f = [Plain EXCEPT !.noClobber = f.noClobber]}

Each(p, q, r, s) == {<<<<Both(p, q)>>, <<Both(r, s)>>>>}
Tree(p, q, r, s) == {<<<<Both(p, q), Both(r, s)>>>>}

SomeCommands ==
       {With(t, u, f) : t \in {"gzip", "bzip2"}, u \in Each("a", "a.gz", "b", "b.gz"), f \in GzFlags}
  \cup {With(t, u, f) : t \in {"gunzip", "bunzip2"},
                        u \in Each("a.gz", "a", "b.gz", "b") \cup Each("a.gz", "a", "a.z", "a"),
                        f \in GzFlags}
  \cup {With("mv", u, f) : u \in Each("a", "x", "b", "y") \cup Each("a", "a.gz", "b", "x")
                                  \cup Each("a", "x", "b", "x") \cup Each("a", "a", "b", "y")
                                  \cup Tree("a", "x", "b", "y")
                                  \cup Tree("a", "a.gz", "b", "b.gz"), f \in MvFlags}
  \cup {With("cp", u, f) : u \in Each("a", "x", "b", "x") \cup Each("a", "a", "b", "y")
                                  \cup Tree("a", "x", "b", "y"), f \in CpFlags}
  \cup {With("zip", u, f) : u \in Tree("a", "m.zip", "b", "m.zip"), f \in ZipFlags}
  \cup {With("unzip", u, f) : u \in Tree("m.zip", "a", "m.zip", "x")
                                     \cup Tree("m.zip", "x", "m.zip", "x"), f \in UnzipFlags}

Nothing == [p \in Paths |-> NoFile]
SomeDisks ==
  { [Nothing EXCEPT !["a"] = Raw("A"), !["b"] = Raw("B")],
    [Nothing EXCEPT !["b"] = Raw("B")],
    [Nothing EXCEPT !["a"] = Raw("A"), !["b"] = Raw("B"), !["x"] = Raw("old"),
                    !["b.gz"] = Raw("older")],
    [Nothing EXCEPT !["a"] = Raw("old"), !["a.gz"] = Whole("gz", <<"A", "B">>),
                    !["m.zip"] = Whole("zip", <<"A", "B">>)],
    [Nothing EXCEPT !["a.gz"] = Whole("gz", <<"A">>), !["b.gz"] = Whole("gz", <<"B">>),
                    !["a.z"] = Whole("gz", <<"old">>)] }
=============================================================================
