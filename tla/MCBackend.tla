------------------------------ MODULE MCBackend ------------------------------
(* Two parts of the backend in one run, each on a small instance of its own: *)
(* the session with the sockets that watch it, and the flags of one chat.    *)
(* A behaviour is about one of them.  The tables start out of step with the  *)
(* phone: a pin that is gone there, or a flag missing here.                  *)
EXTENDS Session, ChatFlags, TLC

Symmetry == Permutations(Sockets)

VARIABLE part

MCInit ==
    /\ part \in {"session", "flags"} /\ Init /\ FlagsInit
    /\ part # "session" => ~paired
    /\ IF part = "flags" THEN phone = NoFlags <=> table # NoFlags
       ELSE phone = NoFlags /\ table = NoFlags

MCNext ==
    \/ part = "session" /\ Next /\ UNCHANGED <<part, flagsVars>>
    \/ part = "flags" /\ FlagsNext /\ UNCHANGED <<part, vars>>
    \/ part = "flags" /\ UNCHANGED <<part, vars, flagsVars>>   \* its bounds may stop it

MCSpec == MCInit /\ [][MCNext]_<<part, vars, flagsVars>>
=============================================================================
