--------------------------- MODULE ActionGuardMC ---------------------------
(***************************************************************************)
(* Instances of ActionGuard for TLC: a worktree /w of the main clone /m.   *)
(***************************************************************************)
EXTENDS ActionGuard, TLC

Worktree == <<"w">>

MainClone == <<"m">>

Name(dir, kind, scope) == [dir |-> dir, kind |-> kind, scope |-> scope]

(* One lock of each place: beside the worktree's sources, for one entry of *)
(* the main clone, and above both.                                         *)
ThreeNames ==
  {Name(<<"w">>, "scoped", "src"), Name(<<"m">>, "scoped", "doc"),
   Name(<<>>, "user", WholeProject)}

LockOf(identity, mode, operations, expires, readable) ==
  [identity |-> identity, mode |-> mode, operations |-> operations,
   expires |-> expires, notBefore |-> expires, condition |-> FALSE,
   releaseMode |-> "all", readable |-> readable]

SomeContents ==
  {LockOf("own", "hard", {"commit"}, NoDate, TRUE),
   LockOf("foreign", "hard", {}, 1, TRUE),
   LockOf("incomplete", "soft", {}, NoDate, TRUE),
   LockOf("own", "hard", {}, NoDate, FALSE)}

Edit(targets) ==
  [coverage |-> "resolved", targets |-> targets,
   aliases |-> {"file-write", "write", "edit"}]

Unresolved(coverage) ==
  [coverage |-> coverage, targets |-> {}, aliases |-> {}]

(* The entry src is a directory of the worktree and not of the main clone. *)
SomeDirectories == {<<>>, Worktree, MainClone, <<"w", "src">>}

Config(enabled, owner, asks) ==
  [enabled |-> enabled, owner |-> owner, asks |-> asks,
   mainKnown |-> TRUE, closed |-> {}]

(* Every way to be asked, the guard switched off, nobody to answer to, a   *)
(* lost main clone and one that cannot be listed.                          *)
SomeConfigs ==
  {Config(TRUE, TRUE, TRUE), Config(TRUE, TRUE, FALSE),
   Config(FALSE, TRUE, TRUE), Config(TRUE, FALSE, TRUE),
   [Config(TRUE, TRUE, TRUE) EXCEPT !.mainKnown = FALSE],
   [Config(TRUE, TRUE, TRUE) EXCEPT !.closed = {MainClone}]}

SomeActions ==
  {Edit({<<"w", "src", "a">>}),
   Edit({<<"w", "src", "a">>, <<"w", "doc", "b">>}),
   Edit({<<"w", "b">>, <<"x", "c">>}),
   Edit({<<"w", "src">>}),
   Edit({Worktree}),
   Unresolved("none"),
   Unresolved("malformed")}

=============================================================================
