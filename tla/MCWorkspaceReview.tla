-------------------------- MODULE MCWorkspaceReview --------------------------
(* A work tree of one directory and git's own entry; the directory holds a file
   and may hold a link to the file, a link out of the tree or nothing beside it, and the
   command may make a file or a link beside the directory. *)
EXTENDS WorkspaceReview

CONSTANTS inner, outer

MCGitDir == 0
MCPaths == {<<0>>, <<1>>, <<1, 1>>, <<1, 2>>, <<2>>}

MCLeads == [l \in Links |-> IF l = inner THEN <<1, 1>> ELSE Elsewhere]

OneFile(c) == [p \in Paths |-> IF p = <<1>> THEN Dir ELSE IF p = <<1, 1>> THEN c ELSE None]

\* Git's entry is there only where no link is.
MCOriginals ==
    {[OneFile(c) EXCEPT ![<<1, 2>>] = n] : c \in Contents, n \in {None} \cup Links}
    \cup {[OneFile(c) EXCEPT ![<<0>>] = Dir] : c \in Contents}

\* What the modes differ in shows without a review.
HostRuns == [runtime : {"host"}, mode : {"snapshot"}, masked : {{}}, review : {TRUE},
             preserve : {FALSE}]
            \cup [runtime : {"host"}, mode : {"snapshot", "tmpfs", "git-worktree"}, masked : {{}},
                  review : {FALSE}, preserve : {TRUE}]
\* A mask that hides the directory, or the file in it.
DockerRuns == [runtime : {"docker"}, mode : {"tmpfs"}, masked : {{<<1>>}, {<<1, 1>>}},
               review : {TRUE}, preserve : {FALSE}]
              \cup [runtime : {"docker"}, mode : {"tmpfs"}, masked : {{<<2>>}},
                    review : {FALSE}, preserve : {FALSE}]
AllConfigs == HostRuns \cup DockerRuns
Reviewed == {c \in HostRuns : c.mode = "snapshot" /\ c.review /\ ~c.preserve}
            \cup {c \in DockerRuns : c.review}
MCSymmetry == Permutations(Contents)
=============================================================================
