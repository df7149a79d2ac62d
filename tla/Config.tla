--------------------------------- MODULE Config --------------------------------
(***************************************************************************)
(* config.hpp: reading the configuration from a TOML document, and writing *)
(* the documented one.                                                     *)
(*                                                                         *)
(* A document is the values of the settings it has, and its device tables, *)
(* unless it is not valid TOML.  A setting is a table and a key.  Of the   *)
(* values of a setting, or of a key of a device, these are told apart: its *)
(* default, others, one of another type, and a number that the C++ type    *)
(* cannot represent; base_difficulty is a hexadecimal text.  What cpptoml  *)
(* does is modelled from how config.hpp uses it.                           *)
(***************************************************************************)
EXTENDS Numbers, Functions

Flags == {<<"server", "allow_prioritization">>, <<"server", "allow_control">>,
          <<"server", "log_to_stderr">>, <<"admin", "enable">>, <<"admin", "allow_remote">>}
Sized == {<<"server", "port">>, <<"server", "threads">>, <<"server", "request_limit">>,
          <<"work", "mock_work_generation_delay">>}
Texts == {<<"server", "bind">>, <<"admin", "path">>}
Settings == Flags \cup Sized \cup Texts

default(k) == IF k \in Flags THEN "false" ELSE "default"

BASE_DIFFICULTY == <<2>>      \* a text shorter than the number is wide

\* A device table has some of the keys; an empty document has none of anything.
DeviceKeys == {"type", "platform", "device", "threads", "memory"}
deviceDefault ==
    [k \in DeviceKeys |-> CASE k = "type" -> "cpu" [] k = "memory" -> "2048" [] OTHER -> "0"]

\* base_difficulty as a document gives it.
NotGiven      == [given |-> "none", text |-> <<>>]
Mistyped      == [given |-> "mistyped", text |-> <<>>]
Difficulty(t) == [given |-> "text", text |-> t]

NoValues == [k \in {} |-> "default"]
Empty == [valid |-> TRUE, values |-> NoValues, base_difficulty |-> NotGiven,
          device |-> "none", devices |-> <<>>]

-------------------------------------------------------------------------------
(***************************************************************************)
(* parse_base_and_override_files with merge_type::ignore: of a value given *)
(* twice the first is kept, and the overrides are read first.  Keys of a   *)
(* single device are such values.  A table of the overrides cannot become  *)
(* an array of tables in the file: that is an error.                       *)
(***************************************************************************)
KeepFirst(first, second) ==
    [k \in DOMAIN first \cup DOMAIN second |->
        IF k \in DOMAIN first THEN first[k] ELSE second[k]]

FirstGiven(first, second) == IF first.given # "none" THEN first ELSE second

Clash(overrides, file) == overrides.device = "table" /\ file.device = "array"

(* Faulty variant: a device of the overrides replaces that of the file. *)
mergeWholeDevices(overrides, file) ==
    [valid   |-> overrides.valid /\ file.valid /\ ~Clash(overrides, file),
     values  |-> KeepFirst(overrides.values, file.values),
     base_difficulty |-> FirstGiven(overrides.base_difficulty, file.base_difficulty),
     device  |-> IF overrides.device # "none" THEN overrides.device  ELSE file.device,
     devices |-> IF overrides.device # "none" THEN overrides.devices ELSE file.devices]

merge(overrides, file) ==
    [valid   |-> overrides.valid /\ file.valid /\ ~Clash(overrides, file),
     values  |-> KeepFirst(overrides.values, file.values),
     base_difficulty |-> FirstGiven(overrides.base_difficulty, file.base_difficulty),
     device  |-> IF overrides.device # "none" THEN overrides.device ELSE file.device,
     devices |-> IF overrides.device = "none" THEN file.devices
                 ELSE IF overrides.device = "table" /\ file.device = "table"
                 THEN <<KeepFirst(overrides.devices[1], file.devices[1])>>
                 ELSE overrides.devices]

\* get_as (..).value_or (..): a value of another type counts as none.
value_or(values, k, other) ==
    IF k \in DOMAIN values /\ values[k] # "mistyped" THEN values[k] ELSE other

get_as(tree, k) == value_or(tree.values, k, default(k))

base_hex_l(tree) ==
    IF tree.base_difficulty.given = "text" THEN tree.base_difficulty.text ELSE BASE_DIFFICULTY

\* Keys that the code does not ask for have no effect.
get_devices(tree) ==
    [i \in DOMAIN tree.devices |->
        [k \in DeviceKeys |-> value_or(tree.devices[i], k, deviceDefault[k])]]

\* A device get_device () throws at: a type it does not know, or a number cpptoml refuses.
Refused(device) ==
    device["type"] \notin {"cpu", "gpu"} \/ \E k \in DeviceKeys : device[k] = "out_of_range"

(* Faulty variant: a difficulty that does not parse is that read so far. *)
throwsUnlessDigits(tree) ==
    \/ ~tree.valid
    \/ \E k \in DOMAIN tree.values : tree.values[k] = "out_of_range"
    \/ tree.device = "scalar"
    \/ \E i \in DOMAIN tree.devices : Refused(get_devices(tree)[i])

\* What makes the constructor throw: cpptoml on a text or a number, from_hex, a device.
throws(tree) ==
    \/ ~tree.valid
    \/ \E k \in DOMAIN tree.values : tree.values[k] = "out_of_range"
    \/ ~from_hex(set(0), base_hex_l(tree)).ok
    \/ tree.device = "scalar"
    \/ \E i \in DOMAIN tree.devices : Refused(get_devices(tree)[i])

\* The constructor: from the tree to the members.
read(tree) ==
    [settings |-> [k \in Settings |-> get_as(tree, k)],
     base_difficulty |-> from_hex(set(0), base_hex_l(tree)).bytes,
     devices |-> get_devices(tree)]

-------------------------------------------------------------------------------
(***************************************************************************)
(* export_documented: every setting with its default, and a device table,  *)
(* then a comment sign before each line but the tables' headers.  So the   *)
(* text reads as a document with no values, and with one device.           *)
(***************************************************************************)
WrittenSettings == Settings

writtenDevice ==
    [k \in {"type", "device_id", "platform_id", "memory", "threads"} |->
        IF k = "type" THEN "gpu" ELSE "0"]

writtenDifficulty == to_hex(from_hex(set(0), BASE_DIFFICULTY).bytes)

export_documented == [Empty EXCEPT !.device = "table", !.devices = <<NoValues>>]
===============================================================================
