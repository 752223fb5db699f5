------------------------------- MODULE MCJWKS -------------------------------
(* JWKS with a key that is rotated out, one that is rotated in and one     *)
(* that is no RSA key.                                                     *)
EXTENDS JWKS

TokenKids == [c1 |-> "old", c2 |-> "new", c3 |-> "old"]

Keys(kids) == [form |-> "keys", kids |-> kids]
NoKeys == [form |-> "no keys", kids |-> {}]
NullValue == [form |-> "null", kids |-> {}]

Mangled(kids) == [form |-> "mistyped", kids |-> kids]

(* Before and after a rotation; a document that is damaged; the value null. *)
Rotation == {Keys({"old", "ec"}), Keys({"new"}), Mangled({"old", "new"}), NullValue}

(* The old key's document, and one without keys. *)
Withdrawn == {Keys({"old"}), NoKeys}
=============================================================================
