------------------------- MODULE HomeDirectoriesProofs -------------------------
(***************************************************************************)
(* What follows from HomeDirectories, and so holds of whatever implements  *)
(* it: HomeIsKept of EncryptionClients carries it to the service, the      *)
(* scripts and the clients, as long as cp and mv do not fail unnoticed.    *)
(***************************************************************************)
EXTENDS HomeDirectories, TLAPS

\* Where there is space for a copy nobody makes new home directories.
NothingNew == ~Erases => \A p \in Place : places[p] # "skel"

DirectoriesInv ==
    DirectoriesTypeOK /\ DirectoriesExist /\ NothingNew /\ SessionHasHome

LEMMA InitDirectories == DirectoriesInit => DirectoriesInv
BY DEF DirectoriesInit, DirectoriesTypeOK, DirectoriesInv, DirectoriesExist, NothingNew,
       SessionHasHome, Place

LEMMA DirectoriesStep ==
    DirectoriesInv /\ [DirectoriesNext]_directory_vars => DirectoriesInv'
<1> SUFFICES ASSUME DirectoriesInv, [DirectoriesNext]_directory_vars
             PROVE  DirectoriesInv'
  OBVIOUS
<1> USE DEF DirectoriesInv, DirectoriesTypeOK, DirectoriesExist, NothingNew,
            SessionHasHome, Found, Place, Kind
<1>1. CASE LogsIn
  BY <1>1 DEF LogsIn
<1>2. CASE LogsOut
  BY <1>2 DEF LogsOut
<1>3. CASE Mounts
  BY <1>3 DEF Mounts
<1>4. CASE CopiesOut
  BY <1>4 DEF CopiesOut
<1>5. CASE MovesBack
  BY <1>5 DEF MovesBack
<1>6. CASE Destroys
  BY <1>6 DEF Destroys
<1>7. CASE UNCHANGED directory_vars
  BY <1>7 DEF directory_vars
<1> QED
  BY <1>1, <1>2, <1>3, <1>4, <1>5, <1>6, <1>7 DEF DirectoriesNext

LEMMA DirectoriesInvariant == DirectoriesSpec => []DirectoriesInv
BY InitDirectories, DirectoriesStep, PTL DEF DirectoriesSpec

\* There are home directories somewhere at any time: the partition is given up only
\* when others were made (home-encryption-preparation.sh), and these are removed only
\* when the partition has some (home-encryption-finish.sh).
THEOREM DirectoriesAreKept == DirectoriesSpec => []DirectoriesExist
<1>1. DirectoriesInv => DirectoriesExist
  BY DEF DirectoriesInv
<1> QED
  BY DirectoriesInvariant, <1>1, PTL

\* Where there is space for a copy they are those of the users, with what was in them:
\* only the branch of home-encryption-preparation.sh that makes homes from /etc/skel
\* gives it up.
THEOREM DataIsKept == DirectoriesSpec => []DataKept
<1>1. DirectoriesInv => DataKept
  BY DEF DirectoriesInv, DirectoriesTypeOK, DirectoriesExist, NothingNew, DataKept, Kind
<1> QED
  BY DirectoriesInvariant, <1>1, PTL

\* The device owner never works in a session whose home is somewhere else, or on
\* a partition that is not mounted.
THEOREM OwnerHasHome == DirectoriesSpec => []SessionHasHome
<1>1. DirectoriesInv => SessionHasHome
  BY DEF DirectoriesInv
<1> QED
  BY DirectoriesInvariant, <1>1, PTL
=============================================================================
