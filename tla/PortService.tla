---------------------------- MODULE PortService ----------------------------
(***************************************************************************)
(* What the USB host promises to whoever reads the keyboard: a device is   *)
(* served only while it is the one in the port, or until the change of the *)
(* port is noticed, which always happens; service is never handed from one *)
(* device to the next without an enumeration in between; and a port that   *)
(* was given up comes back only through a connection change.               *)
(***************************************************************************)
CONSTANTS Classes,  \* the classes of devices that are served
          Others,   \* what else may be in the port, nothing at all included
          None      \* no class

VARIABLES inPort,   \* what is in the port
          changed,  \* a connection change waits to be noticed
          phase,    \* what the host does with the port
          served    \* the class of the device that is served

vars == <<inPort, changed, phase, served>>
Phases == {"idle", "enumerating", "failed", "serving"}

TypeOK == /\ inPort \in Classes \cup Others
          /\ changed \in BOOLEAN
          /\ phase \in Phases
          /\ served \in Classes \cup {None}

Init == /\ inPort \in Classes \cup Others
        /\ changed = FALSE
        /\ phase = "idle"
        /\ served = None

\* The user changes what is in the port; a bus reset may look like a change.
Change == /\ inPort' \in Classes \cup Others
          /\ changed' = TRUE
          /\ UNCHANGED <<phase, served>>

\* The change is read and the port looked at afresh; it is pending until cleared.
Notice == /\ changed
          /\ phase' \in {"idle", "enumerating"}
          /\ served' = None
          /\ UNCHANGED <<inPort, changed>>

\* Outside service the mark is cleared, also that of a change nobody has read.
Clear == /\ phase # "serving"
         /\ changed' = FALSE
         /\ UNCHANGED <<inPort, phase, served>>

\* A chip that is initialised again looks at the port without a change.
Restart == /\ phase \in {"idle", "enumerating"}
           /\ phase' \in {"idle", "enumerating"}
           /\ changed' \in BOOLEAN
           /\ UNCHANGED <<inPort, served>>

\* The class driver takes the device that is in the port.
Identify == /\ phase = "enumerating"
            /\ inPort \in Classes
            /\ served' = inPort
            /\ phase' = "serving"
            /\ UNCHANGED <<inPort, changed>>

GiveUp == /\ phase = "enumerating"
          /\ phase' = "failed"
          /\ UNCHANGED <<inPort, changed, served>>

Next == Change \/ Notice \/ Clear \/ Restart \/ Identify \/ GiveUp

\* A host that serves keeps looking for changes.
Fairness == WF_vars(phase = "serving" /\ Notice)

Spec == Init /\ [][Next]_vars /\ Fairness

\* The served device is the one in the port until a change waits to be noticed.
ServesWhatIsThere == phase = "serving" => changed \/ served = inPort
=============================================================================
