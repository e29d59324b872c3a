--------------------------- MODULE MCHeaderChecker ---------------------------
(***************************************************************************)
(* A build with the cases of HeaderChecker::CheckInclude, checked by two  *)
(* workers. Target a (toolchain tc1) includes, from a.cc:                 *)
(*   "b.h"       public header of its direct private dep b        -> ok   *)
(*   "c.h"       header of c, reached a -> b -> c, b -> c private -> chain *)
(*   "bpriv.h"   non-public source of b                           -> private *)
(*   "e.h"       of e, not a dep, e allows circular includes from a -> ok *)
(*   "f.h"       of f, not a dep                                  -> unreachable *)
(*   "x.h"       only claimed in toolchain tc2                    -> skipped *)
(*   "nowhere.h" claimed by nobody                                -> skipped *)
(*   <local.h>   system: skipped unless check_system; then resolves in the *)
(*               include dir to f's l.h (unreachable)                     *)
(*   "local.h"   quoted: resolves next to a.cc, to a's own al.h   -> ok   *)
(*   "m.h"       claimed by f (not a dep) and then by b (public)  -> ok   *)
(*   "s-Swift.h" generated public header of Swift module s        -> ok   *)
(*   "sb.h"      bridge header of s, s has an empty public list   -> private *)
(* a.h includes "c.h", "b.h", "f.h" and "e.h", so two tasks of a share  *)
(* cache entries, kNotADependency ones included;                         *)
(* b.cc includes "c.h" (direct private dep) and "b.h" (its own).          *)
(* out.cc lies in the output dir, gone.cc is not on disk; o opts out of   *)
(* checking and g is an action whose output gen.cc a also lists.          *)
(***************************************************************************)
EXTENDS HeaderChecker

MCTargets == {"a", "b", "c", "e", "f", "x", "o", "g", "s"}
MCFiles == {"a.cc", "a.h", "al.h", "out.cc", "gone.cc", "gen.cc", "b.cc", "b.h",
            "bpriv.h", "m.h", "c.h", "e.h", "f.h", "l.h", "x.h", "o.cc", "sb.h",
            "s-Swift.h", "s.swift"}
MCDirs == {"root", "adir", "other"}
MCLiterals == {"b.h", "c.h", "bpriv.h", "e.h", "f.h", "x.h", "nowhere.h", "local.h",
               "m.h", "s-Swift.h", "sb.h"}

MCTargetOrder == <<"a", "f", "b", "c", "e", "x", "o", "g", "s">>
MCToCheck == <<"a", "b", "o">>
MCFileOrder == <<"a.cc", "a.h", "al.h", "b.cc", "b.h", "bpriv.h", "c.h", "e.h", "f.h",
                 "gen.cc", "gone.cc", "l.h", "m.h", "o.cc", "out.cc", "s-Swift.h",
                 "s.swift", "sb.h", "x.h">>

MCToolchain == [t \in MCTargets |-> IF t = "x" THEN "tc2" ELSE "tc1"]
MCIsBinary == [t \in MCTargets |-> t # "g"]
MCCheckIncludes == [t \in MCTargets |-> t # "o"]
MCPublicDeps == [t \in MCTargets |-> {}]
MCPrivateDeps == [t \in MCTargets |->
                    CASE t = "a" -> {"b", "s", "g"} [] t = "b" -> {"c"} [] OTHER -> {}]
MCFriends == [t \in MCTargets |-> {}]
(* With check_generated and check_system: b names a as a friend, so a may *)
(* include b's non-public bpriv.h.                                        *)
MCFriendsOfB == [t \in MCTargets |-> IF t = "b" THEN {"a"} ELSE {}]
MCAllowCircular == [t \in MCTargets |-> IF t = "e" THEN {"a"} ELSE {}]
MCAllHeadersPublic == [t \in MCTargets |-> t \notin {"b", "s"}]
MCSources == [t \in MCTargets |->
  CASE t = "a" -> {"a.cc", "a.h", "al.h", "out.cc", "gone.cc", "gen.cc"}
    [] t = "b" -> {"b.cc", "bpriv.h"}
    [] t = "c" -> {"c.h"}
    [] t = "e" -> {"e.h"}
    [] t = "f" -> {"f.h", "l.h", "m.h"}
    [] t = "x" -> {"x.h"}
    [] t = "o" -> {"o.cc"}
    [] t = "s" -> {"s.swift"}
    [] OTHER -> {}]
MCPublicHeaders == [t \in MCTargets |-> IF t = "b" THEN {"b.h", "m.h"} ELSE {}]
MCActionOutputs == [t \in MCTargets |-> IF t = "g" THEN {"gen.cc"} ELSE {}]
MCBuildsSwiftModule == [t \in MCTargets |-> t = "s"]
MCSwiftBridge == [t \in MCTargets |-> IF t = "s" THEN "sb.h" ELSE "none"]
MCSwiftOutputs == [t \in MCTargets |-> IF t = "s" THEN {"s-Swift.h"} ELSE {}]
MCFileType == [f \in MCFiles |->
  IF f \in {"a.cc", "out.cc", "gone.cc", "gen.cc", "b.cc", "o.cc"} THEN "cpp"
  ELSE IF f = "s.swift" THEN "other" ELSE "h"]
MCInOutputDir == {"out.cc", "gen.cc", "s-Swift.h"}
MCOnDisk == MCFiles \ {"gone.cc", "gen.cc", "s-Swift.h"}
MCFileDir == [f \in MCFiles |-> IF f \in {"a.cc", "a.h"} THEN "adir" ELSE "other"]
MCIncludeDirs == [t \in MCTargets |-> <<"root">>]
MCResolveIn == [p \in MCDirs \X MCLiterals |->
  IF p[1] = "adir" THEN (IF p[2] = "local.h" THEN "al.h" ELSE "none")
  ELSE IF p[1] = "other" THEN "none"
  ELSE CASE p[2] = "local.h" -> "l.h"
         [] p[2] = "nowhere.h" -> "nothere.h"
         [] OTHER -> p[2]]

Q(l) == [system |-> FALSE, literal |-> l]
S(l) == [system |-> TRUE, literal |-> l]
MCIncludes == [f \in MCFiles |->
  CASE f = "a.cc" -> <<Q("b.h"), Q("c.h"), Q("bpriv.h"), Q("e.h"), Q("f.h"), Q("x.h"),
                       Q("nowhere.h"), S("local.h"), Q("local.h"), Q("m.h"),
                       Q("s-Swift.h"), Q("sb.h")>>
    [] f = "a.h" -> <<Q("c.h"), Q("b.h"), Q("f.h"), Q("e.h")>>
    [] f = "b.cc" -> <<Q("c.h"), Q("b.h")>>
    [] f = "o.cc" -> <<Q("f.h")>>
    [] OTHER -> << >>]
=============================================================================
