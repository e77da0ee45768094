----------------------------- MODULE InternTable -----------------------------
(***************************************************************************)
(* What the key dictionary promises its clients, with no threads, no lock  *)
(* and no reference counter: at any moment a name has at most one interned *)
(* key, every holder of that name holds that very key, and the key goes    *)
(* away with its last holder.  KeyDictionary implements this module.       *)
(***************************************************************************)

CONSTANTS
  Names,    (* contents of object keys                                     *)
  Cells,    (* memory blocks a key can occupy                              *)
  Handles,  (* places that can own one reference: locals, object members   *)
  None      (* "no key"                                                    *)

VARIABLES
  interned, (* the key of a name that has holders, None otherwise          *)
  held      (* the key a handle owns, or None                              *)

vars == <<interned, held>>

Init ==
  /\ interned = [n \in Names |-> None]
  /\ held = [h \in Handles |-> None]

(* A lookup hands out the interned key of n ...                            *)
Share(n, h) ==
  /\ held[h] = None
  /\ interned[n] # None
  /\ held' = [held EXCEPT ![h] = interned[n]]
  /\ UNCHANGED interned

(* ... or interns a block no other interned key occupies.                  *)
Create(n, h, c) ==
  /\ held[h] = None
  /\ interned[n] = None
  /\ \A m \in Names : interned[m] # c
  /\ interned' = [interned EXCEPT ![n] = c]
  /\ held' = [held EXCEPT ![h] = c]

Copy(h, g) ==
  /\ held[h] # None
  /\ held[g] = None
  /\ held' = [held EXCEPT ![g] = held[h]]
  /\ UNCHANGED interned

(* The last holder takes the interned key with it.                         *)
Drop(h) ==
  /\ held[h] # None
  /\ held' = [held EXCEPT ![h] = None]
  /\ interned' = [n \in Names |->
                    IF \E g \in Handles \ {h} : held[g] = interned[n]
                    THEN interned[n]
                    ELSE None]

Next ==
  \/ \E n \in Names, h \in Handles : Share(n, h)
  \/ \E n \in Names, h \in Handles, c \in Cells : Create(n, h, c)
  \/ \E h, g \in Handles : Copy(h, g)
  \/ \E h \in Handles : Drop(h)

Spec == Init /\ [][Next]_vars
=============================================================================
