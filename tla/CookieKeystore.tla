--------------------------- MODULE CookieKeystore ---------------------------
(***************************************************************************)
(* The keystore of one profile's cookie file: a single keychain item that  *)
(* holds every key version still kept, which of them is current, and when  *)
(* each was made.  Ages are counted in units of the rotation interval and  *)
(* stop at the first age past retention.                                   *)
(***************************************************************************)
EXTENDS Integers

CONSTANTS
  MaxKeyId,    \* the last key id, 255 in the code
  Rotation,    \* ROTATION_INTERVAL_SECS: the age at which a key is replaced
  Retention,   \* KEY_RETENTION_SECS: the greatest age a replaced key is kept at
  NoKeystore   \* the keychain has no cookie_key item

KeyId == 1..MaxKeyId
Key == Nat
Age == 0..(Retention + 1)
Version == [key: Key, age: Age]

(* A keystore that has its current key.                                    *)
IsKeystore(s) ==
  \E ids \in SUBSET KeyId : s \in [current: ids, keys: [ids -> Version]]

ASSUME KeystoreAssumption ==
  /\ MaxKeyId \in Nat \ {0}
  /\ Rotation \in Nat \ {0}
  /\ Retention \in Nat
  /\ ~IsKeystore(NoKeystore) /\ NoKeystore \notin [raw: Key]

(* An item written before key versions existed is one raw key.             *)
IsRaw(item) == item # NoKeystore /\ "raw" \in DOMAIN item

NewKeystore(key) ==
  [current |-> 1, keys |-> [id \in {1} |-> [key |-> key, age |-> 0]]]

(* What load_or_init_from_entry makes of an item that is not a keystore:   *)
(* a raw key becomes version 1, as if made now; a missing item is replaced *)
(* by a new key.                                                           *)
Initial(item, fresh) == NewKeystore(IF IsRaw(item) THEN item.raw ELSE fresh)

Current(s) == s.keys[s.current]

Due(s) == Current(s).age >= Rotation
Exhausted(s) == s.current = MaxKeyId

(* VARIANT: a rotation drops every key but the new one.                    *)
RotatedAlone(s, fresh) ==
  [current |-> s.current + 1,
   keys |-> [id \in {s.current + 1} |-> [key |-> fresh, age |-> 0]]]

(* rotate_if_needed: a new current key, and the others while they are not  *)
(* past retention, counted from when each was made.                        *)
Rotated(s, fresh) ==
  LET id == s.current + 1
      kept == {k \in DOMAIN s.keys : s.keys[k].age <= Retention}
  IN  [current |-> id,
       keys |-> [k \in kept \cup {id} |->
                   IF k = id THEN [key |-> fresh, age |-> 0] ELSE s.keys[k]]]

(* The cookie file names the version it was encrypted under; decryption    *)
(* fails unless the keystore has that very key under that id.              *)
Opens(s, id, key) == id \in DOMAIN s.keys /\ s.keys[id].key = key

Older(age) == IF age > Retention THEN age ELSE age + 1

AgedItem(item) ==
  IF item = NoKeystore \/ IsRaw(item) THEN item
  ELSE [item EXCEPT !.keys =
          [id \in DOMAIN item.keys |->
             [item.keys[id] EXCEPT !.age = Older(@)]]]

KeysIn(item) ==
  IF item = NoKeystore THEN {}
  ELSE IF IsRaw(item) THEN {item.raw}
  ELSE {item.keys[id].key : id \in DOMAIN item.keys}
=============================================================================
