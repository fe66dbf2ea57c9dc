----------------------------- MODULE WireDamage -----------------------------
(***************************************************************************)
(* A payload on its way: it is written from a value, may be cut, lengthened*)
(* or changed in single symbols, and is read by the format it was sent as. *)
(***************************************************************************)
EXTENDS Wire

CONSTANTS
  Symbol,      \* what a changed symbol may become
  Value,       \* the values sent, by format
  MaxDamage    \* changes to one payload

ASSUME DamageAssumption == Symbol \subseteq Nat /\ MaxDamage \in Nat

Format == {"version", "inv", "getblocks", "peers", "tx", "block"}

VARIABLES format, value, payload, damage

vars == <<format, value, payload, damage>>

Serialize(f, v) ==
  CASE f = "version" -> serialize_version(v)
    [] f = "inv" -> serialize_inventory(v)
    [] f = "getblocks" -> serialize_getblocks(v)
    [] f = "peers" -> serialize_peer_list(v)
    [] f = "tx" -> serialize_tx(v)
    [] f = "block" -> serialize_block(v)

Deserialize(f, p) ==
  CASE f = "version" -> deserialize_version(p)
    [] f = "inv" -> deserialize_inventory(p)
    [] f = "getblocks" -> deserialize_getblocks(p)
    [] f = "peers" -> deserialize_peer_list(p)
    [] f = "tx" -> deserialize_tx(p)
    [] f = "block" -> deserialize_block(p)

Init ==
  /\ format \in Format /\ value \in Value[format]
  /\ payload = Serialize(format, value)
  /\ damage = <<>>

Cut(n) ==
  /\ payload' = SubSeq(payload, 1, n)
  /\ damage' = Append(damage, "cut")

Lengthen(s) ==
  /\ payload' = Append(payload, s)
  /\ damage' = Append(damage, "longer")

Change(i, s) ==
  /\ payload' = [payload EXCEPT ![i] = s]
  /\ damage' = Append(damage, "changed")

Next ==
  /\ Len(damage) < MaxDamage
  /\ \/ \E n \in 0..(Len(payload) - 1) : Cut(n)
     \/ \E s \in Symbol : Lengthen(s)
     \/ \E i \in DOMAIN payload, s \in Symbol : Change(i, s)
  /\ UNCHANGED <<format, value>>

Spec == Init /\ [][Next]_vars

-----------------------------------------------------------------------------
(* Properties                                                              *)

Decoded == Deserialize(format, payload)

(* Every deserialize returns the value its serialize was given, nested     *)
(* transactions and addresses included.                                    *)
RoundTrip == damage = <<>> => Decoded = value

(* A value has one encoding: whatever payload a deserialize accepts, the   *)
(* value it returns is written back as that payload, so nothing of it was  *)
(* left unread or made up.  A block or transaction relayed after decoding  *)
(* has the bytes that were received.                                       *)
OneEncoding == Decoded # Nothing => Serialize(format, Decoded) = payload
=============================================================================
