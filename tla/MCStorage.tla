------------------------------ MODULE MCStorage ------------------------------
(* Storage with the threads of the application and the calls they make.    *)
EXTENDS Storage

CONSTANTS gui, camera, shut

\* The GUI thread makes every call, the camera thread reads clients, and shutdownLoop
\* syncs every second and erases when the case is opened.
AllCalls == [t \in Threads |->
  CASE t = gui    -> Queries \cup {"sync", "clean"}
    [] t = camera -> {"client"}
    [] t = shut   -> {"trySync", "clean"}]
=============================================================================
