------------------------------ MODULE MCIgnores -----------------------------
(* A project o with directories b, b/c and bc, the name of which begins    *)
(* with that of b; ignore files in four places, or in the environment.     *)
EXTENDS Ignores, TLC

o == <<"o">>
b == <<"b">>
bc == <<"b", "c">>
leaf == <<"c">>
vcs == <<"g">>
O == <<o>>
Dirs == {O, <<o, b>>, <<o, b, leaf>>, <<o, bc>>, <<o, bc, leaf>>, <<o, vcs>>, <<o, b, vcs>>}

NoEnv == [config |-> <<>>, git |-> <<>>, bzr |-> <<>>, app |-> <<>>]
TreeOf(files) ==
  [dirs |-> Dirs, files |-> files, vcs |-> {"git"}, excludes |-> <<>>, info |-> <<>>,
   bzrignore |-> <<>>, vcsDirs |-> <<AtRoot(vcs)>>, env |-> NoEnv, marked |-> {O},
   home |-> <<>>, workdir |-> O]

InOrigin == {<<>>, <<Line(leaf)>>, <<Line(b), Allow(b)>>, <<Line(bc), Line(b)>>}
InB == {<<>>, <<Allow(leaf)>>, <<Line(leaf), Unparsed>>}
ProjectTrees ==
  {TreeOf(<<O, "gitignore">> :> inOrigin @@ <<<<o, b>>, "ignore">> :> inB
            @@ <<<<o, b, leaf>>, "gitignore">> :> <<Line(bc)>>
            @@ <<<<o, bc, leaf>>, "ignore">> :> <<Line(b)>>
            @@ <<<<o, b, vcs>>, "ignore">> :> <<Line(b)>>) :
     inOrigin \in InOrigin, inB \in InB}
GlobalTree ==
  [TreeOf(<<O, "hgignore">> :> <<Line(bc)>>) EXCEPT
     !.info = <<Allow(leaf)>>,
     !.env = [config |-> <<>>, git |-> <<<<>>, <<Line(b)>>>>, bzr |-> <<<<Line(leaf)>>>>,
              app |-> <<<<Line(leaf)>>>>]]
SomeTrees == ProjectTrees \cup {GlobalTree}

Plain ==
  [override |-> "none", paths |-> {}, ignoreFiles |-> <<>>, noDiscover |-> FALSE,
   noProject |-> FALSE, noGlobal |-> FALSE, noVcs |-> FALSE, filters |-> <<>>,
   ignores |-> <<>>, extensions |-> {}, kinds |-> {"modify"}]
SomeOpts ==
  {Plain, [Plain EXCEPT !.paths = {<<o, b, leaf>>}],
   [Plain EXCEPT !.ignoreFiles = <<<<Line(leaf)>>>>],
   [Plain EXCEPT !.ignoreFiles = <<<<Line(b)>>>>],
   [Plain EXCEPT !.noDiscover = TRUE, !.ignoreFiles = <<<<Line(leaf)>>>>]}

About(path) == [path |-> path, dir |-> path \in Dirs]
Event(paths) == [paths |-> paths, kind |-> "modify"]
SomeEvents ==
  {Event(<<About(d)>>) : d \in (Dirs \ {O}) \cup {<<leaf>>}}
    \cup {Event(<<About(<<o, b, leaf>>), About(<<o, b>>)>>)}
=============================================================================
