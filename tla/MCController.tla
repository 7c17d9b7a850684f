--------------------------- MODULE MCController ---------------------------
(***************************************************************************)
(* An instance of Controller for TLC: a CR first asks for its resource,    *)
(* after an edit no longer, be it with a disabled template or with none.   *)
(***************************************************************************)
EXTENDS Controller

MCWanted == [rev \in 0..MaxVersions |->
               CASE rev = 0 -> "enabled"
                 [] rev = 1 -> "absent"
                 [] OTHER -> "disabled"]

===========================================================================
