--------------------------- MODULE MCHfpHandsFree ---------------------------
EXTENDS HfpHandsFree

(* hfp_hf_demo.c, the features it has of those that matter. *)
DemoFeatures == {"codec", "indicators", "s4"}
BothCodecs == {CVSD, MSBC}

(* Gateways with all of the features and with none. *)
FullOrBare == {FeatureNames, {}}

(* A command of the codec exchange and one of the application's. *)
SomeErrors == {"BCS", "VGM"}

AllCalls ==
  {"release_slc", "establish_audio", "release_audio", "enable_status_update",
   "hf_send_chup", "hf_send_cnum", "hf_answer_incoming_call"}
LinkCalls ==
  {"release_slc", "establish_audio", "release_audio", "enable_status_update"}
=============================================================================
