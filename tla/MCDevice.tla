------------------------------ MODULE MCDevice ------------------------------
(* The two stages behind the generator: seeds become images (SeedImages),   *)
(* images are run on the device (DutRun).  They share nothing but the list  *)
(* of images, so TLC explores them side by side instead of their product.   *)
(* Three seed files: two found under one base name and one beside them;     *)
(* the second configuration finds none.                                     *)
EXTENDS DutRun, SeedImages
VARIABLE side

MCConfigs == <<{"a1", "a2", "b"}, {}>>
MCLog == [a1 |-> "a", a2 |-> "a", b |-> "b"]

DeviceStep(A) == side = "device" /\ A /\ UNCHANGED <<side, imagesVars>>
ImagesStep == side = "images" /\ ImagesNext /\ UNCHANGED <<side, vars>>

DeviceVars == <<side, vars, imagesVars>>
DeviceInit == side \in {"device", "images"} /\ Init /\ ImagesInit
DeviceSpec ==
  /\ DeviceInit /\ [][DeviceStep(Next) \/ ImagesStep]_DeviceVars
  /\ WF_DeviceVars(DeviceStep(Main))
  /\ \A s \in Seeds : WF_DeviceVars(DeviceStep(Thread(s)))

(* The run of the device stage ends, if only with fewer results.            *)
DeviceEnds == side = "device" => Terminates
=============================================================================
