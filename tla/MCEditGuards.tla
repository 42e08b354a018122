---------------------------- MODULE MCEditGuards ----------------------------
(***************************************************************************)
(* An instance of EditGuards: a monorepo root with a work directory inside *)
(* it, an unrelated tree, and a directory that cannot be resolved.         *)
(***************************************************************************)
EXTENDS EditGuards, TLC

CONSTANTS root, sub, other,                     \* trees
          rootFix, subFix, otherFix, lostFix,   \* calls
          config, lock, manifest                \* files

MCCalls == {rootFix, subFix, otherFix, lostFix}
MCFiles == {config, lock, manifest}
MCTrees == {root, sub, other}

\* rootFix is a mise fix of the config and then the lockfile, subFix one of the same
\* config with nothing to prune; the others edit one Dockerfile.
MCTargets == rootFix :> <<config, lock>> @@ subFix :> <<config>>
             @@ otherFix :> <<manifest>> @@ lostFix :> <<manifest>>

MCIdentity == rootFix :> root @@ subFix :> sub
              @@ otherFix :> other @@ lostFix :> Unknown

MCContains == {<<root, sub>>}

MCFilesUnder == root :> {config, lock} @@ sub :> {config}
                @@ other :> {manifest}

\* The config and the lockfile are replaced; the manifest is a Dockerfile.
MCInPlace == {otherFix, lostFix}

\* One call whose file writes may hang for ever.
OneStuck == {otherFix}

=============================================================================
