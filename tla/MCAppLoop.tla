------------------------------ MODULE MCAppLoop ------------------------------
(* Values of AppLoop's constants for TLC. *)
EXTENDS AppLoop

(* Modes at least 1200 wide, which is what bootloader/build.rs asks for. *)
AnyModes   == {<<1280, 720>>, <<1600, 900>>, <<2560, 1600>>}
GpuMode    == <<1600, 900>>
=============================================================================
