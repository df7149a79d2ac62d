------------------------------- MODULE MCProgram -------------------------------
(* Program with settings that meet each branch of reading them. *)
EXTENDS Program

MCFileEdits ==
    { <<<<"server", "allow_control">>, "true">>, <<<<"admin", "enable">>, "true">>,
      <<<<"admin", "allow_remote">>, "true">>,   <<<<"admin", "path">>, "other">>,
      <<<<"server", "threads">>, "out_of_range">> }

MCOverrides ==
    { Empty,
      [Empty EXCEPT !.values = (<<"server", "allow_control">> :> "false")
                                @@ (<<"admin", "enable">> :> "true")],
      [Empty EXCEPT !.values = (<<"admin", "allow_remote">> :> "mistyped"),
                    !.device = "table", !.devices = <<[k \in {"type"} |-> "cpu"]>>],
      [Empty EXCEPT !.valid = FALSE] }

\* Two devices, one of an unknown type, and values of another type or out of range.
MCDeviceTables ==
    { [given |-> "array", tables |-> <<[k \in {"type"} |-> "gpu"], [k \in {"memory"} |-> "64"]>>],
      [given |-> "table", tables |-> <<("type" :> "fpga") @@ ("memory" :> "64")>>],
      [given |-> "table", tables |-> <<("type" :> "mistyped") @@ ("threads" :> "4")>>],
      [given |-> "table", tables |-> <<[k \in {"memory"} |-> "out_of_range"]>>],
      [given |-> "scalar", tables |-> <<>>] }

\* A full text, one that stops being a number, one with too many digits, an empty one.
MCDifficulties == { <<15, 0, 15, 1>>, <<1, NoDigit>>, <<0, 0, 0, 0, 1>>, <<>> }
===============================================================================
