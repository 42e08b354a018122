--------------------------- MODULE MCReviewSession ---------------------------
(* A file whose name a directory's entry has too, a link or nothing beside them, and
   one more entry that the command may add. *)
EXTENDS ReviewSession

CONSTANTS c1, c2, inner, outer

MCGitDir == 0
MCPaths == {<<1>>, <<2>>, <<2, 1>>, <<3>>, <<4>>, <<5>>, <<6>>}
MCLeads == [l \in Links |-> IF l = inner THEN <<1>> ELSE Elsewhere]

\* 4 stands for "[ab]", which matches the file's name, 5 for "a[" and 6 for "a..b".
MCGlobs == {<<n, n>> : n \in {1, 2, 3, 6}} \cup {<<4, 1>>}
MCBadGlobs == {5}
MCDottedNames == {6}

Full(c, n) == [p \in Paths |-> CASE p \in {<<1>>, <<2, 1>>} -> c [] p = <<2>> -> Dir
                              [] p = <<3>> -> n [] OTHER -> None]

MCOriginals == {Full(c1, n) : n \in {None, inner}}

\* The user edits one file.
MCUserPaths == {<<2, 1>>}

\* The command changed or removed a file, removed or emptied the directory or put a
\* file in its place, or moved the first file to another name or put a link there.
MCCopies ==
    LET same == Full(c1, None)
    IN  {[same EXCEPT ![<<1>>] = n] : n \in Contents \cup {None}}
        \cup {[same EXCEPT ![<<1>>] = c2, ![<<2>>] = n, ![<<2, 1>>] = None] :
                 n \in {c1, Dir, None}}
        \cup {[same EXCEPT ![<<1>>] = None, ![p] = c1] : p \in {<<3>>, <<4>>, <<5>>, <<6>>}}
        \cup {[same EXCEPT ![<<3>>] = inner]}
=============================================================================
