----------------------------- MODULE GpioBridge ----------------------------
(***************************************************************************)
(* The bridge from virtual I/Os to the pins of the board (src/io/          *)
(* gpio_bridge.cpp) with the table of the pins that may be used            *)
(* (gpio_capability.cpp).  Pins and their driver are the chip's; they are  *)
(* modelled by what the calls of the bridge do to them.                    *)
(***************************************************************************)
EXTENDS Integers, FiniteSets

CONSTANTS
  Vios,   (* the virtual I/Os a caller names, also ones there are not      *)
  Gpios   (* the pins a caller names                                       *)

VARIABLES
  safe,     (* the pins that are safe_default in the capability table      *)
  begun,    (* cap_ is set                                                 *)
  mappings, (* mappings_: allocated VIO -> [gpio, is_input, value]         *)
  pins,     (* pin -> [mode, level]: its direction and its output latch    *)
  world,    (* pin -> the level that is put on it from outside             *)
  shared    (* history: pins that were mapped while another VIO had them   *)

bridgeVars == <<safe, begun, mappings, pins, world, shared>>

MaxVio == 256
SafeGpios == {1, 2, 4, 5, 6, 7, 8, 9, 10, 11, 12, 13, 14, 16, 17, 18, 21, 38, 39, 40, 41, 42}

BridgeInit ==
  /\ safe = {} /\ begun = FALSE
  /\ mappings = [v \in {} |-> 0]
  /\ pins = [g \in Gpios |-> [mode |-> "reset", level |-> 0]]
  /\ world = [g \in Gpios |-> 0]
  /\ shared = {}

(* load_default() and begin().                                             *)
LoadDefault == safe' = SafeGpios /\ UNCHANGED <<begun, mappings, pins, world, shared>>
Begin == begun' = TRUE /\ UNCHANGED <<safe, mappings, pins, world, shared>>

Allocated(v) == v \in DOMAIN mappings

(* Mutant: the table is not asked.                                         *)
ValidUnasked(v, g) == v < MaxVio /\ ~Allocated(v)

(* validate_mapping()                                                      *)
Valid(v, g) == v < MaxVio /\ ~Allocated(v) /\ (begun => g \in safe)

Owners(g) == { v \in DOMAIN mappings : mappings[v].gpio = g }

(* map_input() and map_output(): the pin is reset, which takes its         *)
(* direction and leaves its latch, and gets the direction of the mapping.  *)
Map(v, g, input) ==
  IF Valid(v, g)
  THEN /\ mappings' = [u \in DOMAIN mappings \cup {v} |->
                         IF u = v THEN [gpio |-> g, is_input |-> input, value |-> 0] ELSE mappings[u]]
       /\ pins' = [pins EXCEPT ![g].mode = IF input THEN "input" ELSE "output"]
       /\ shared' = IF Owners(g) = {} THEN shared \ {g} ELSE shared \cup {g}
       /\ UNCHANGED <<safe, begun, world>>
  ELSE UNCHANGED bridgeVars

(* unmap(): the pin stays as it is.                                        *)
Unmap(v) ==
  /\ mappings' = [u \in DOMAIN mappings \ {v} |-> mappings[u]]
  /\ UNCHANGED <<safe, begun, pins, world, shared>>

(* gpio_get_level(): 0 of a pin whose input is off.                        *)
Level(g) == IF pins[g].mode = "input" THEN world[g] ELSE 0

SampleInputs ==
  /\ mappings' = [v \in DOMAIN mappings |->
                    IF mappings[v].is_input THEN [mappings[v] EXCEPT !.value = Level(mappings[v].gpio)]
                    ELSE mappings[v]]
  /\ UNCHANGED <<safe, begun, pins, world, shared>>

(* The output VIOs of a pin; commit_outputs() writes them in their order.  *)
Writers(g) == { v \in Owners(g) : ~mappings[v].is_input }
Winner(g) == CHOOSE v \in Writers(g) : \A u \in Writers(g) : u <= v

CommitOutputs ==
  /\ pins' = [g \in Gpios |-> IF Writers(g) = {} THEN pins[g]
                              ELSE [pins[g] EXCEPT !.level = mappings[Winner(g)].value]]
  /\ UNCHANGED <<safe, begun, mappings, world, shared>>

(* set_output_value() does nothing to an input.                            *)
SetOutputValue(v, value) ==
  /\ mappings' = IF Allocated(v) /\ ~mappings[v].is_input
                 THEN [mappings EXCEPT ![v].value = value] ELSE mappings
  /\ UNCHANGED <<safe, begun, pins, world, shared>>

(* The pin driver's own calls, as the self tests make them.                *)
SetPin(g, mode, level) ==
  /\ pins' = [pins EXCEPT ![g] = [mode |-> mode, level |-> level]]
  /\ UNCHANGED <<safe, begun, mappings, world, shared>>

(* Something outside changes the level of a pin.                           *)
WorldChanges(g) ==
  /\ world' = [world EXCEPT ![g] = 1 - @]
  /\ UNCHANGED <<safe, begun, mappings, pins, shared>>

-----------------------------------------------------------------------------
(* Properties *)

(* No pin outside of the table gets a direction.  A mapped pin has the     *)
(* direction of its mapping, however mappings and unmappings of it have    *)
(* followed each other, as long as no two VIOs had it at a time: unmap()   *)
(* leaves pins as they are, and the self tests set two of them directly.   *)
PinsFollowMappings ==
  /\ \A g \in Gpios : pins[g].mode # "reset" => g \in SafeGpios
  /\ \A v \in DOMAIN mappings :
       LET g == mappings[v].gpio IN
       g \notin shared => pins[g].mode = IF mappings[v].is_input THEN "input" ELSE "output"
=============================================================================
