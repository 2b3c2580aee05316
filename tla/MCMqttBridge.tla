---------------------------- MODULE MCMqttBridge ----------------------------
(* Instances of MqttBridge for TLC: one room at the start, a second one that
   may be created or that an earlier run has left on the broker. *)
EXTENDS MqttBridge

CONSTANTS r1, r2, n2, n1

Started == [x \in {r1, r2} |-> IF x = r1 THEN [name |-> n1, knob |-> None, hold |-> None] ELSE None]

Commands == {[verb |-> "set", control |-> "knob", ident |-> n1, payload |-> Own],
             [verb |-> "clear", control |-> "hold", ident |-> r1, payload |-> Own],
             [verb |-> "set", control |-> "hold", ident |-> r1, payload |-> Own],
             [verb |-> "set", control |-> "enabled", ident |-> None, payload |-> Off],
             [verb |-> "clear", control |-> "enabled", ident |-> None, payload |-> Off]}

(* The room that is gone, under its id and its name, the other's config with
   the identifiers of before, and a command somebody retained *)
Stranded ==
    [t \in Topics |->
        CASE t = <<"config", r1>> -> <<"old", n1>>
          [] t = <<"config", r2>> -> <<"old", n2>>
          [] t \in {<<"knob", r2>>, <<"knob", n2>>} -> Base
          [] t = <<"set", "knob", n1>> -> Own
          [] OTHER -> None]

(* At most two events of the environment in one behaviour, of which at most
   one goes wrong *)
FewEvents ==
    LET wrong == used["faults"] + used["drops"] + used["toggles"] + used["expiries"] IN
    wrong <= 1 /\ wrong + used["edits"] + used["orders"] <= 2
=============================================================================
