---------------------------- MODULE MCCliCommands ----------------------------
EXTENDS CliCommands, TLC

\* Every command but mkdir, which has a run of its own.
AllButMkdir == AllCommands \ {"mkdir"}

\* Two directories in the root, one of which leads back to the other: names 0
\* and 1 are the dots.
Loops == "root" :> (2 :> "docs" @@ 3 :> Leaf @@ 4 :> "src")
         @@ "docs" :> (2 :> Leaf @@ 3 :> "src")
         @@ "src" :> (5 :> "docs")

Ask(names, count, canonical, depth) ==
    [names |-> names, count |-> count, canonical |-> canonical, depth |-> depth]

\* Expectations that are met, that are not, and none; every depth, either order.
Flags ==
    {Ask(s, n, FALSE, 0) : s \in {{}, 0 .. 4, 0 .. 3, 0 .. 5}, n \in {Missing, 4, 5, 6}}
    \cup {Ask({}, Missing, c, k) : c \in BOOLEAN, k \in 0 .. MaxDepth}
=============================================================================
