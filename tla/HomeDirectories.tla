---------------------------- MODULE HomeDirectories ----------------------------
(***************************************************************************)
(* What the preparation and the finalization of the encryption promise to  *)
(* the users of the device: there are home directories for them all the    *)
(* time, these change their place only while nobody is logged in, and      *)
(* whoever logs in finds them.  Only where there is no space for a copy do *)
(* the users lose what they had in them.                                   *)
(***************************************************************************)

CONSTANT Erases    \* TRUE if the copy may have to make way for new home directories

VARIABLES
    places,     \* the home directories of each place
    named,      \* the place that passwd names
    reachable,  \* the partition is mounted
    session     \* the device owner is logged in

directory_vars == <<places, named, reachable, session>>

Place == {"partition", "tmp"}

\* No home directories, new ones, or those the users had.
Kind == {"none", "skel", "data"}

DirectoriesTypeOK ==
    /\ places \in [Place -> Kind]
    /\ named \in Place
    /\ reachable \in BOOLEAN /\ session \in BOOLEAN

\* The place that passwd names has home directories.
Found == places[named] # "none" /\ (named = "partition" => reachable)

DirectoriesInit ==
    /\ DirectoriesTypeOK
    /\ places["partition"] = "data" /\ places["tmp"] # "skel"
    /\ session => Found

LogsIn ==
    /\ ~session /\ session' = TRUE
    /\ reachable' \in {reachable, TRUE}
    /\ UNCHANGED <<places, named>>
    /\ Found'

LogsOut ==
    /\ session /\ session' = FALSE
    /\ UNCHANGED <<places, named, reachable>>

\* Nobody loses the directories he uses by it.
Mounts ==
    /\ reachable' = ~reachable
    /\ session /\ named = "partition" => reachable'
    /\ UNCHANGED <<places, named, session>>

\* The copy is complete, or it is replaced by new directories.
CopiesOut ==
    /\ ~session
    /\ \/ UNCHANGED places
       \/ /\ places["partition"] # "none" /\ reachable
          /\ places' = [places EXCEPT !["tmp"] = places["partition"]]
       \/ Erases /\ places' = [places EXCEPT !["tmp"] = "skel"]
    /\ named' = "tmp"
    /\ reachable' \in {reachable, FALSE}
    /\ UNCHANGED session

\* The partition keeps what it has; only an empty one takes the copy.
MovesBack ==
    /\ ~session
    /\ places["partition"] # "none" \/ reachable
    /\ places' = [partition |-> IF places["partition"] = "none" THEN places["tmp"]
                                ELSE places["partition"],
                  tmp       |-> "none"]
    /\ named' = "partition"
    /\ UNCHANGED <<reachable, session>>

\* What becomes of the partition with the encryption.
Destroys ==
    /\ places["tmp"] # "none" /\ ~reachable
    /\ places' = [places EXCEPT !["partition"] = "none"]
    /\ UNCHANGED <<named, reachable, session>>

DirectoriesNext ==
    LogsIn \/ LogsOut \/ Mounts \/ CopiesOut \/ MovesBack \/ Destroys

DirectoriesSpec == DirectoriesInit /\ [][DirectoriesNext]_directory_vars

-----------------------------------------------------------------------------
(* Properties *)

\* There are home directories somewhere at any time (home-encryption-preparation.sh,
\* home-encryption-finish.sh).
DirectoriesExist == \E p \in Place : places[p] # "none"

\* With space for a copy they are what the users had.
DataKept == ~Erases => \E p \in Place : places[p] = "data"

\* Whoever is logged in has the home directory that passwd names.
SessionHasHome == session => Found
=============================================================================
