---------------------------- MODULE EncryptProofs ----------------------------
(***************************************************************************)
(* Theorems about the encryption job for every set of clients and every    *)
(* set of faults, and their proofs.                                        *)
(*                                                                         *)
(* None of the properties is inductive: each rests on how far the chain of *)
(* callbacks has come.  StatusInv relates the status to the callback that  *)
(* is due, DataInv and DeviceInv relate both to the invocation_data and to *)
(* the device, and ResultInv, which needs a chain that ends where it       *)
(* failed, to the result.                                                  *)
(***************************************************************************)
EXTENDS Encrypt, TLAPS

Preparing == {"bus", "client", "resolve", "block", "can_format"}

Over == {"FINISHED", "FAILED"}

\* Where the chain is, the status says.
StatusInv ==
    /\ status = "NOT_STARTED" => pending = "none"
    /\ pending \in Preparing => status = "IN_PREPARATION"
    /\ pending \in {"tear_down", "erase_data"} => status = "ERASURE_IN_PROGRESS"
    /\ pending = "format" => status = "IN_PROGRESS"
    /\ pending = "rescan" => status \in {"NEEDS_RESCAN", "FAILED"}
    /\ status = "NEEDS_RESCAN" => pending = "rescan"
    /\ status = "RESCAN_FINISHED" => pending = "none"

\* Whoever will look at the invocation_data finds it, unless the callback that
\* freed it goes on.
DataInv ==
    /\ pending \in Preparing \cup {"erase_data"} => data = "live"
    /\ "fs_proxy" \notin Fault => (pending \notin {"none", "rescan"} => data = "live")
    /\ signal_handler => data = "live"
    /\ status \in {"NEEDS_RESCAN", "RESCAN_FINISHED"} => data = "live"

\* While the service waits for the UUID, UDisks formats behind the answered call;
\* once the UUID is on its way nothing is left that could take the device away.
DeviceInv ==
    /\ request # "none" => status \in {"IN_PROGRESS", "NEEDS_RESCAN", "RESCAN_FINISHED"}
    /\ cleartext_device_uuid \/ "IdUUID" \in announce =>
          /\ disk = "luks" /\ request = "none" /\ ~tearing_down
          /\ status \in {"IN_PROGRESS", "NEEDS_RESCAN", "RESCAN_FINISHED"} \cup Over
    /\ unit_conf # {} => /\ status \in Over /\ pending = "none"
                         /\ cleartext_device_uuid

\* The job is over when, and only when, its one result has been signalled.
ResultInv ==
    /\ status \notin Over => sent = <<>>
    /\ status \in Over => /\ Len(sent) = 1
                          /\ sent[1].success = (status = "FINISHED")
                          /\ data = "freed" /\ ~signal_handler
                          /\ pending \in {"none", "rescan"}

ChainInv == EncryptTypeOK /\ StatusInv /\ DataInv /\ DeviceInv

USE DEF encrypt_vars, job_vars, result_vars, disk_vars, udisks_vars

-----------------------------------------------------------------------------
(* Type correctness *)

\* The drop-ins written by write_systemd_configuration are the four there are.
LEMMA UnitConfsAreKnown ==
    /\ Len(UnitConfs) = 4
    /\ \A i \in 1 .. 4 : UnitConfs[i] \in AllUnitConfs
BY DEF UnitConfs, AllUnitConfs

LEMMA TypeInit == EncryptInit => EncryptTypeOK
<1> SUFFICES ASSUME EncryptInit PROVE EncryptTypeOK
  OBVIOUS
<1>2. sent \in Seq(Result)
  BY DEF EncryptInit, JobInit
<1>3. mounted \in BOOLEAN /\ crypttab \in BOOLEAN
  BY DEF EncryptInit, DiskInit
<1> QED
  BY <1>2, <1>3
  DEF EncryptInit, JobInit, DiskInit, EncryptTypeOK, Status, Call, EraseType

\* A result is appended for the client that is noted.
LEMMA SignalTyped ==
    ASSUME EncryptTypeOK, NEW success \in BOOLEAN, signal_encrypt_finished(success)
    PROVE  sent' \in Seq(Result) /\ receiver' \in Client \cup {NoClient}
<1>1. [to |-> receiver, success |-> success] \in Result
  BY DEF EncryptTypeOK, Result
<1> QED
  BY <1>1 DEF EncryptTypeOK, signal_encrypt_finished

LEMMA SetStatusTyped ==
    ASSUME EncryptTypeOK, NEW state \in Status, set_status(state)
    PROVE  /\ status' \in Status
           /\ sent' \in Seq(Result) /\ receiver' \in Client \cup {NoClient}
<1>1. CASE state \in {"FAILED", "FINISHED"}
  BY <1>1, SignalTyped DEF set_status
<1>2. CASE state \notin {"FAILED", "FINISHED"}
  BY <1>2 DEF set_status, EncryptTypeOK
<1> QED
  BY <1>1, <1>2

\* The types of the job and of the device, which few steps both change.
JobTyped ==
    /\ running \in BOOLEAN /\ status \in Status /\ pending \in Call \cup {"none"}
    /\ data \in {"NULL", "live", "freed"}
    /\ temporary \in BOOLEAN /\ erase \in EraseType /\ signal_handler \in BOOLEAN
    /\ cleartext_device_path \in BOOLEAN /\ cleartext_device_uuid \in BOOLEAN
    /\ initialized \in BOOLEAN

ResultTyped == receiver \in Client \cup {NoClient} /\ sent \in Seq(Result)

DiskTyped ==
    /\ tearing_down \in BOOLEAN /\ configuring \in BOOLEAN
    /\ request \in Passphrase \cup {"none"} /\ disk \in {"plain", "wiped", "luks"}
    /\ luks_key \in Passphrase \cup {"none"}
    /\ mounted \in BOOLEAN /\ crypttab \in BOOLEAN
    /\ key_files \subseteq Passphrase /\ unit_conf \subseteq AllUnitConfs
    /\ announce \subseteq PropertyChange

LEMMA TypeParts ==
    /\ EncryptTypeOK <=> JobTyped /\ ResultTyped /\ DiskTyped
    /\ EncryptTypeOK' <=> JobTyped' /\ ResultTyped' /\ DiskTyped'
<1>1. EncryptTypeOK <=> JobTyped /\ ResultTyped /\ DiskTyped
  BY DEF EncryptTypeOK, JobTyped, ResultTyped, DiskTyped
<1>2. EncryptTypeOK' <=> JobTyped' /\ ResultTyped' /\ DiskTyped'
  BY DEF EncryptTypeOK, JobTyped, ResultTyped, DiskTyped
<1> QED
  BY <1>1, <1>2

LEMMA PartsStay ==
    /\ EncryptTypeOK /\ UNCHANGED disk_vars => DiskTyped'
    /\ EncryptTypeOK /\ UNCHANGED result_vars => ResultTyped'
<1>1. DiskTyped /\ UNCHANGED disk_vars => DiskTyped'
  BY DEF DiskTyped
<1>2. ResultTyped /\ UNCHANGED result_vars => ResultTyped'
  BY DEF ResultTyped
<1> QED
  BY <1>1, <1>2, TypeParts

\* The end of a job, and the answer of UDisks that brings it.
LEMMA EndTyped ==
    ASSUME EncryptTypeOK, end_encryption_to_failure
    PROVE  /\ status' \in Status /\ ResultTyped'
           /\ data' \in {"NULL", "live", "freed"} /\ signal_handler' \in BOOLEAN
<1>1. set_status("FAILED") /\ "FAILED" \in Status
  BY DEF end_encryption_to_failure, Status
<1> QED
  BY <1>1, SetStatusTyped DEF end_encryption_to_failure, release_data, ResultTyped

LEMMA RefusesTyped ==
    ASSUME EncryptTypeOK, NEW fault, Refuses(fault)
    PROVE  /\ tearing_down' \in BOOLEAN /\ configuring' \in BOOLEAN
           /\ request' \in Passphrase \cup {"none"}
BY DEF Refuses, EncryptTypeOK

LEMMA GivesUpTyped ==
    ASSUME EncryptTypeOK, GivesUp PROVE EncryptTypeOK'
<1>1. /\ set_status("FAILED") /\ "FAILED" \in Status
      /\ signal_handler' = FALSE /\ data' = "freed" /\ pending' = "none"
      /\ UNCHANGED <<running, temporary, erase, cleartext_device_path,
                     cleartext_device_uuid, initialized>>
      /\ UNCHANGED disk_vars
  BY DEF GivesUp, end_encryption_to_failure, release_data, Status
<1>2. DiskTyped'
  BY <1>1, PartsStay
<1>3. status' \in Status /\ ResultTyped'
  BY <1>1, SetStatusTyped DEF ResultTyped
<1>4. JobTyped'
  BY <1>1, <1>3, TypeParts DEF JobTyped
<1> QED
  BY <1>2, <1>3, <1>4, TypeParts

LEMMA ContinueTyped ==
    ASSUME EncryptTypeOK, NEW next \in Call, Continue(next) PROVE EncryptTypeOK'
<1>1. DiskTyped' /\ ResultTyped'
  BY PartsStay DEF Continue
<1>2. JobTyped'
  BY TypeParts DEF Continue, JobTyped
<1> QED
  BY <1>1, <1>2, TypeParts

LEMMA WriteConfTyped ==
    ASSUME EncryptTypeOK, NEW ok \in BOOLEAN, write_systemd_configuration(ok)
    PROVE  unit_conf' \subseteq AllUnitConfs
<1>1. CASE ok
  BY <1>1 DEF write_systemd_configuration
<1>2. CASE ~ok
  <2>1. PICK n \in 0 .. Len(UnitConfs) - 1 :
            unit_conf' = unit_conf \cup {UnitConfs[i] : i \in 1 .. n}
    BY <1>2 DEF write_systemd_configuration
  <2>2. \A i \in 1 .. n : UnitConfs[i] \in AllUnitConfs
    BY UnitConfsAreKnown
  <2> QED
    BY <2>1, <2>2 DEF EncryptTypeOK
<1> QED
  BY <1>1, <1>2

LEMMA FinishTyped ==
    ASSUME EncryptTypeOK, NEW state \in Status, NEW known \in BOOLEAN,
           finish_if_ready(state, known)
    PROVE  /\ status' \in Status
           /\ data' \in {"NULL", "live", "freed"} /\ signal_handler' \in BOOLEAN
           /\ unit_conf' \subseteq AllUnitConfs
           /\ sent' \in Seq(Result) /\ receiver' \in Client \cup {NoClient}
<1>1. CASE write_systemd_configuration(TRUE) /\ set_status("FINISHED") /\ release_data
  <2>1. "FINISHED" \in Status
    BY DEF Status
  <2> QED
    BY <1>1, <2>1, WriteConfTyped, SetStatusTyped DEF release_data
<1>2. CASE write_systemd_configuration(FALSE) /\ set_status("FAILED") /\ release_data
  <2>1. "FAILED" \in Status
    BY DEF Status
  <2> QED
    BY <1>2, <2>1, WriteConfTyped, SetStatusTyped DEF release_data
<1>3. CASE status' = state /\ UNCHANGED <<result_vars, data, signal_handler, unit_conf>>
  BY <1>3 DEF EncryptTypeOK
<1> QED
  BY <1>1, <1>2, <1>3 DEF finish_if_ready

\* What a change of properties leaves behind, with the variables its callers
\* leave alone.
LEMMA PropertiesTyped ==
    ASSUME EncryptTypeOK, NEW property, NEW value,
           on_properties_changed(property, value)
    PROVE  /\ status' \in Status
           /\ data' \in {"NULL", "live", "freed"} /\ signal_handler' \in BOOLEAN
           /\ cleartext_device_path' \in BOOLEAN
           /\ cleartext_device_uuid' \in BOOLEAN
           /\ unit_conf' \subseteq AllUnitConfs
           /\ sent' \in Seq(Result) /\ receiver' \in Client \cup {NoClient}
<1>1. CASE CleartextDeviceChanged(value)
  BY <1>1 DEF CleartextDeviceChanged, EncryptTypeOK
<1>2. CASE IdUUIDChanged(value)
  <2>1. CASE /\ cleartext_device_path' = FALSE /\ cleartext_device_uuid' = TRUE
             /\ finish_if_ready(status, TRUE)
    <3>1. status \in Status
      BY DEF EncryptTypeOK
    <3> QED
      BY <2>1, <3>1, FinishTyped
  <2>2. CASE UNCHANGED <<status, data, signal_handler, cleartext_device_path,
                         cleartext_device_uuid, result_vars, unit_conf>>
    BY <2>2 DEF EncryptTypeOK
  <2> QED
    BY <1>2, <2>1, <2>2 DEF IdUUIDChanged
<1> QED
  BY <1>1, <1>2 DEF on_properties_changed

LEMMA TypeStep == EncryptTypeOK /\ [EncryptNext]_encrypt_vars => EncryptTypeOK'
<1> SUFFICES ASSUME EncryptTypeOK, [EncryptNext]_encrypt_vars
             PROVE  EncryptTypeOK'
  OBVIOUS
<1>1. ASSUME NEW client \in Client, NEW is_temporary \in BOOLEAN,
             NEW e \in EraseType, BeginEncryption(client, is_temporary, e)
      PROVE  EncryptTypeOK'
  <2>1. CASE start_to_encrypt(is_temporary, e) /\ receiver' = client
    <3>1. DiskTyped'
      BY <2>1, PartsStay DEF start_to_encrypt
    <3>2. ResultTyped'
      BY <2>1, TypeParts DEF start_to_encrypt, ResultTyped
    <3>3. JobTyped'
      BY <2>1, TypeParts DEF start_to_encrypt, JobTyped, Status, Call
    <3> QED
      BY <3>1, <3>2, <3>3, TypeParts
  <2>2. CASE UNCHANGED encrypt_vars
    BY <2>2 DEF EncryptTypeOK
  <2> QED
    BY <1>1, <2>1, <2>2 DEF BeginEncryption
<1>c. {"client", "resolve", "block", "can_format"} \subseteq Call
  BY DEF Call
<1>2. CASE got_bus
  BY <1>2, <1>c, GivesUpTyped, ContinueTyped DEF got_bus, Aborts
<1>3. CASE got_client
  BY <1>3, <1>c, GivesUpTyped, ContinueTyped DEF got_client, Aborts
<1>4. CASE check_device_list
  <2>1. CASE /\ pending' = "block" /\ signal_handler' = TRUE
             /\ UNCHANGED <<running, status, data, temporary, erase,
                            cleartext_device_path, cleartext_device_uuid, initialized,
                            result_vars, disk_vars>>
    <3>1. DiskTyped' /\ ResultTyped'
      BY <2>1, PartsStay
    <3>2. JobTyped'
      BY <1>c, <2>1, TypeParts DEF JobTyped
    <3> QED
      BY <3>1, <3>2, TypeParts
  <2> QED
    BY <1>4, <2>1, GivesUpTyped DEF check_device_list, Aborts
<1>5. CASE found_block_device
  BY <1>5, <1>c, GivesUpTyped, ContinueTyped DEF found_block_device, Aborts
<1>6. CASE can_format_to_type
  <2>1. CASE UnmountAndStart
    <3>1. /\ status' \in Status /\ pending' \in Call
          /\ request' \in Passphrase \cup {"none"}
          /\ tearing_down' = TRUE
      BY <2>1
      DEF UnmountAndStart, start_erasure_with_random, start_format_luks,
          EncryptTypeOK, Status, Call, Passphrase
    <3>2. ResultTyped'
      BY <2>1, PartsStay DEF UnmountAndStart
    <3>3. DiskTyped'
      BY <2>1, <3>1, TypeParts DEF UnmountAndStart, DiskTyped
    <3>4. JobTyped'
      BY <2>1, <3>1, TypeParts DEF UnmountAndStart, JobTyped
    <3> QED
      BY <3>2, <3>3, <3>4, TypeParts
  <2>2. CASE FilesystemProxyFails
    <3>1. DiskTyped'
      BY <2>2, PartsStay DEF FilesystemProxyFails
    <3>2. ResultTyped'
      BY <2>2, SignalTyped DEF FilesystemProxyFails, ResultTyped
    <3>3. running' \in BOOLEAN /\ status' \in Status /\ pending' \in Call \cup {"none"}
      BY <2>2 DEF FilesystemProxyFails, Status, Call
    <3>4. JobTyped'
      BY <2>2, <3>3, TypeParts DEF FilesystemProxyFails, release_data, JobTyped
    <3> QED
      BY <3>1, <3>2, <3>4, TypeParts
  <2> QED
    BY <1>6, <2>1, <2>2, GivesUpTyped DEF can_format_to_type, Aborts
<1>7. CASE tear_down_complete
  <2>1. CASE Accepts /\ pending' = "erase_data" /\ UNCHANGED <<status, data,
             signal_handler, result_vars>>
    <3>1. DiskTyped' /\ ResultTyped'
      BY <1>7, <2>1, PartsStay DEF tear_down_complete, Accepts
    <3>2. JobTyped'
      BY <1>7, <2>1, TypeParts DEF tear_down_complete, JobTyped, Call
    <3> QED
      BY <3>1, <3>2, TypeParts
  <2>2. CASE /\ Refuses("tear_down") /\ pending' = "none"
             /\ end_encryption_to_failure
    BY <1>7, <2>2, EndTyped, RefusesTyped, TypeParts
    DEF tear_down_complete, JobTyped, DiskTyped
  <2> QED
    BY <1>7, <2>1, <2>2 DEF tear_down_complete
<1>8. CASE erase_data
  <2>1. CASE EraseBlock
    BY <2>1 DEF EraseBlock, EncryptTypeOK
  <2>2. CASE ErasureEnds
    BY <2>2
    DEF ErasureEnds, start_format_luks, EncryptTypeOK, Status, Call, Passphrase
  <2>3. CASE NoRandomKey
    BY <2>3 DEF NoRandomKey, EncryptTypeOK
  <2>4. CASE DeviceNotOpened
    <3>1. running' \in BOOLEAN /\ pending' \in Call \cup {"none"}
      BY <2>4 DEF DeviceNotOpened
    <3>2. UNCHANGED <<status, data, temporary, erase, signal_handler,
                      cleartext_device_path, cleartext_device_uuid, initialized,
                      result_vars, disk_vars>>
      BY <2>4 DEF DeviceNotOpened
    <3> QED
      BY <3>1, <3>2 DEF EncryptTypeOK
  <2> QED
    BY <1>8, <2>1, <2>2, <2>3, <2>4 DEF erase_data
<1>9. CASE format_complete
  <2>0. pending' \in Call
    BY <1>9 DEF format_complete, Call
  <2>1. CASE /\ Accepts /\ set_status("NEEDS_RESCAN") /\ create_key_file
             /\ UNCHANGED <<data, signal_handler>>
    <3>1. "NEEDS_RESCAN" \in Status
      BY DEF Status
    <3>2. key_files' \subseteq Passphrase
      BY <2>1 DEF create_key_file, EncryptTypeOK, Passphrase
    <3>3. status' \in Status /\ ResultTyped'
      BY <2>1, <3>1, SetStatusTyped DEF ResultTyped
    <3>4. JobTyped'
      BY <1>9, <2>0, <2>1, <3>3, TypeParts DEF format_complete, JobTyped
    <3>5. DiskTyped'
      BY <1>9, <2>1, <3>2, TypeParts DEF format_complete, Accepts, DiskTyped
    <3> QED
      BY <3>3, <3>4, <3>5, TypeParts
  <2>2. CASE Refuses("format") /\ end_encryption_to_failure /\ UNCHANGED key_files
    <3>1. JobTyped' /\ ResultTyped'
      BY <1>9, <2>0, <2>2, EndTyped, TypeParts DEF format_complete, JobTyped
    <3>2. DiskTyped'
      BY <1>9, <2>2, RefusesTyped, TypeParts DEF format_complete, DiskTyped
    <3> QED
      BY <3>1, <3>2, TypeParts
  <2> QED
    BY <1>9, <2>1, <2>2 DEF format_complete
<1>10. CASE rescan_complete
  <2>1. CASE finish_if_ready("RESCAN_FINISHED", cleartext_device_uuid)
    <3>1. "RESCAN_FINISHED" \in Status /\ cleartext_device_uuid \in BOOLEAN
      BY DEF Status, EncryptTypeOK
    <3> QED
      BY <1>10, <2>1, <3>1, FinishTyped DEF rescan_complete, EncryptTypeOK
  <2>2. CASE UNCHANGED <<status, result_vars, data, signal_handler, unit_conf>>
    BY <1>10, <2>2 DEF rescan_complete, EncryptTypeOK
  <2> QED
    BY <1>10, <2>1, <2>2 DEF rescan_complete
<1>11. CASE UDisksJob
  <2>1. ResultTyped'
    BY <1>11, PartsStay
    DEF UDisksJob, UDisksTearsDown, UDisksFormats, UDisksConfigures
  <2>2. JobTyped'
    BY <1>11, TypeParts
    DEF UDisksJob, UDisksTearsDown, UDisksFormats, UDisksConfigures, JobTyped
  <2>3. CASE UDisksTearsDown
    <3>1. DiskTyped'
      BY <2>3, TypeParts DEF UDisksTearsDown, DiskTyped
    <3> QED
      BY <2>1, <2>2, <3>1, TypeParts
  <2>4. CASE UDisksFormats
    <3>1. announce' \subseteq PropertyChange
      BY <2>4, TypeParts DEF UDisksFormats, DiskTyped, PropertyChange
    <3>2. DiskTyped'
      BY <2>4, <3>1, TypeParts DEF UDisksFormats, DiskTyped, Passphrase
    <3> QED
      BY <2>1, <2>2, <3>2, TypeParts
  <2>5. CASE UDisksConfigures
    <3>1. DiskTyped'
      BY <2>5, TypeParts DEF UDisksConfigures, DiskTyped
    <3> QED
      BY <2>1, <2>2, <3>1, TypeParts
  <2> QED
    BY <1>11, <2>3, <2>4, <2>5 DEF UDisksJob
<1>12. ASSUME NEW property \in PropertyChange, PropertyAnnounced(property)
       PROVE  EncryptTypeOK'
  <2>1. announce' \subseteq PropertyChange
    BY <1>12 DEF PropertyAnnounced, EncryptTypeOK
  <2>2. CASE on_properties_changed(property, "value")
    BY <1>12, <2>1, <2>2, PropertiesTyped DEF PropertyAnnounced, EncryptTypeOK
  <2>3. CASE UNCHANGED <<status, data, signal_handler, cleartext_device_path,
                         cleartext_device_uuid, result_vars, unit_conf>>
    BY <1>12, <2>1, <2>3 DEF PropertyAnnounced, EncryptTypeOK
  <2> QED
    BY <1>12, <2>2, <2>3 DEF PropertyAnnounced
<1>13. ASSUME NEW property \in PropertyChange, EmptyPropertyAnnounced(property)
       PROVE  EncryptTypeOK'
  <2>1. on_properties_changed(property, "")
    BY <1>13 DEF EmptyPropertyAnnounced
  <2>2. ResultTyped'
    BY <2>1, PropertiesTyped DEF ResultTyped
  <2>3. JobTyped'
    BY <1>13, <2>1, PropertiesTyped, TypeParts DEF EmptyPropertyAnnounced, JobTyped
  <2>4. DiskTyped'
    BY <1>13, <2>1, PropertiesTyped, TypeParts DEF EmptyPropertyAnnounced, DiskTyped
  <2> QED
    BY <2>2, <2>3, <2>4, TypeParts
<1>14. CASE UNCHANGED encrypt_vars
  BY <1>14 DEF EncryptTypeOK
<1> QED
  BY <1>1, <1>2, <1>3, <1>4, <1>5, <1>6, <1>7, <1>8, <1>9, <1>10, <1>11, <1>12,
     <1>13, <1>14 DEF EncryptNext, Callback, UDisks

\* The variables keep their types whatever fails.
THEOREM TypeCorrect == EncryptSpec => []EncryptTypeOK
BY TypeInit, TypeStep, PTL DEF EncryptSpec

-----------------------------------------------------------------------------
(* The chain of callbacks *)

\* What the operators of Encrypt that end a job leave behind.
LEMMA SignalEffect ==
    ASSUME NEW state, state \in Over, set_status(state)
    PROVE  /\ status' = state /\ receiver' = NoClient
           /\ sent' = Append(sent, [to |-> receiver, success |-> state = "FINISHED"])
BY DEF set_status, signal_encrypt_finished, Over

LEMMA QuietEffect ==
    ASSUME NEW state, state \notin Over, set_status(state)
    PROVE  status' = state /\ UNCHANGED result_vars
BY DEF set_status, Over

LEMMA FailureEffect ==
    ASSUME end_encryption_to_failure
    PROVE  /\ status' = "FAILED" /\ data' = "freed" /\ signal_handler' = FALSE
           /\ receiver' = NoClient
           /\ sent' = Append(sent, [to |-> receiver, success |-> FALSE])
<1>1. "FAILED" \in Over /\ set_status("FAILED")
  BY DEF end_encryption_to_failure, Over
<1>2. ("FAILED" = "FINISHED") = FALSE
  OBVIOUS
<1> QED
  BY <1>1, <1>2, SignalEffect DEF end_encryption_to_failure, release_data

LEMMA GivesUpEffect ==
    ASSUME GivesUp
    PROVE  /\ status' = "FAILED" /\ data' = "freed" /\ signal_handler' = FALSE
           /\ pending' = "none" /\ receiver' = NoClient
           /\ sent' = Append(sent, [to |-> receiver, success |-> FALSE])
           /\ UNCHANGED <<cleartext_device_uuid, disk_vars>>
BY FailureEffect DEF GivesUp

LEMMA FinishEffect ==
    ASSUME NEW state, NEW known \in BOOLEAN, finish_if_ready(state, known)
    PROVE  \/ /\ state = "RESCAN_FINISHED" /\ known
              /\ status' \in Over /\ data' = "freed" /\ signal_handler' = FALSE
              /\ receiver' = NoClient
              /\ sent' = Append(sent, [to |-> receiver,
                                       success |-> status' = "FINISHED"])
           \/ /\ ~(state = "RESCAN_FINISHED" /\ known)
              /\ status' = state
              /\ UNCHANGED <<result_vars, data, signal_handler, unit_conf>>
<1>1. CASE \/ state = "RESCAN_FINISHED" /\ known /\ set_status("FINISHED")
                 /\ release_data
           \/ state = "RESCAN_FINISHED" /\ known /\ set_status("FAILED")
                 /\ release_data
  <2>1. "FINISHED" \in Over /\ "FAILED" \in Over
    BY DEF Over
  <2>2. CASE set_status("FINISHED")
    <3>1. status' = "FINISHED" /\ ("FINISHED" = "FINISHED") = (status' = "FINISHED")
      BY <2>1, <2>2, SignalEffect
    <3> QED
      BY <1>1, <2>1, <2>2, <3>1, SignalEffect DEF release_data
  <2>3. CASE set_status("FAILED")
    <3>1. status' = "FAILED" /\ ("FAILED" = "FINISHED") = (status' = "FINISHED")
      BY <2>1, <2>3, SignalEffect
    <3> QED
      BY <1>1, <2>1, <2>3, <3>1, SignalEffect DEF release_data
  <2> QED
    BY <1>1, <2>2, <2>3
<1>2. CASE /\ ~(state = "RESCAN_FINISHED" /\ known) /\ status' = state
           /\ UNCHANGED <<result_vars, data, signal_handler, unit_conf>>
  BY <1>2
<1> QED
  BY <1>1, <1>2 DEF finish_if_ready

LEMMA ChainInit == EncryptInit => StatusInv /\ DataInv /\ DeviceInv
BY DEF EncryptInit, JobInit, DiskInit, StatusInv, DataInv, DeviceInv, Preparing

\* Every change of properties either ends a job whose rescan is over or leaves
\* the status as it is.
LEMMA PropertiesEffect ==
    ASSUME NEW property, NEW value, on_properties_changed(property, value)
    PROVE  /\ signal_handler
           /\ \/ UNCHANGED cleartext_device_uuid
              \/ property = "IdUUID" /\ value # "" /\ cleartext_device_uuid' = TRUE
           /\ \/ /\ status = "RESCAN_FINISHED" /\ cleartext_device_uuid' = TRUE
                 /\ status' \in Over /\ data' = "freed" /\ signal_handler' = FALSE
                 /\ receiver' = NoClient
                 /\ sent' = Append(sent, [to |-> receiver,
                                          success |-> status' = "FINISHED"])
              \/ UNCHANGED <<status, result_vars, data, signal_handler, unit_conf>>
<1>1. CASE CleartextDeviceChanged(value)
  BY <1>1 DEF CleartextDeviceChanged, on_properties_changed
<1>2. CASE /\ property = "IdUUID" /\ value # ""
           /\ cleartext_device_uuid' = TRUE /\ finish_if_ready(status, TRUE)
  BY <1>2, FinishEffect DEF on_properties_changed
<1>3. CASE UNCHANGED <<status, data, signal_handler, cleartext_device_path,
                       cleartext_device_uuid, result_vars, unit_conf>>
  BY <1>3 DEF on_properties_changed
<1> QED
  BY <1>1, <1>2, <1>3 DEF on_properties_changed, IdUUIDChanged

LEMMA ChainStep ==
    ChainInv /\ [EncryptNext]_encrypt_vars => (StatusInv /\ DataInv /\ DeviceInv)'
<1> SUFFICES ASSUME ChainInv, [EncryptNext]_encrypt_vars
             PROVE  (StatusInv /\ DataInv /\ DeviceInv)'
  OBVIOUS
<1> USE DEF ChainInv, StatusInv, DataInv, DeviceInv, Preparing, Over
<1>1. ASSUME NEW client \in Client, NEW is_temporary \in BOOLEAN,
             NEW e \in EraseType, BeginEncryption(client, is_temporary, e)
      PROVE  (StatusInv /\ DataInv /\ DeviceInv)'
  <2>1. CASE start_to_encrypt(is_temporary, e)
    BY <2>1 DEF start_to_encrypt
  <2>2. CASE UNCHANGED encrypt_vars
    BY <2>2
  <2> QED
    BY <1>1, <2>1, <2>2 DEF BeginEncryption
<1>2. ASSUME GivesUp, pending \in Preparing
      PROVE  (StatusInv /\ DataInv /\ DeviceInv)'
  BY <1>2, GivesUpEffect
<1>c. ASSUME pending \in Preparing, pending' \in Preparing, UNCHANGED <<status, data>>,
             UNCHANGED <<cleartext_device_uuid, disk_vars>>
      PROVE  (StatusInv /\ DataInv /\ DeviceInv)'
  BY <1>c
<1>3. CASE got_bus
  BY <1>2, <1>3, <1>c DEF got_bus, Returns, Continue, Aborts
<1>4. CASE got_client
  BY <1>2, <1>4, <1>c DEF got_client, Returns, Continue, Aborts
<1>5. CASE check_device_list
  BY <1>2, <1>5, <1>c DEF check_device_list, Returns, Aborts
<1>6. CASE found_block_device
  BY <1>2, <1>6, <1>c DEF found_block_device, Returns, Continue, Aborts
<1>7. CASE can_format_to_type
  <2>1. CASE UnmountAndStart
    BY <1>7, <2>1
    DEF can_format_to_type, Returns, UnmountAndStart, start_erasure_with_random,
        start_format_luks
  <2>2. CASE FilesystemProxyFails
    BY <1>7, <2>2
    DEF can_format_to_type, Returns, FilesystemProxyFails, release_data
  <2> QED
    BY <1>2, <1>7, <2>1, <2>2 DEF can_format_to_type, Returns, Aborts
<1>8. CASE tear_down_complete
  <2>1. /\ pending = "tear_down"
        /\ UNCHANGED <<cleartext_device_uuid, disk, unit_conf, announce>>
    BY <1>8 DEF tear_down_complete, Returns
  <2>2. CASE Accepts /\ pending' = "erase_data" /\ UNCHANGED <<status, data,
             signal_handler>>
    BY <2>1, <2>2 DEF Accepts
  <2>3. CASE Refuses("tear_down") /\ pending' = "none" /\ end_encryption_to_failure
    BY <2>1, <2>3, FailureEffect DEF Refuses
  <2> QED
    BY <1>8, <2>2, <2>3 DEF tear_down_complete
<1>9. CASE erase_data
  <2>1. /\ pending = "erase_data" /\ status = "ERASURE_IN_PROGRESS"
        /\ UNCHANGED <<data, signal_handler, cleartext_device_uuid, unit_conf, announce>>
    BY <1>9
    DEF erase_data, Returns, EraseBlock, ErasureEnds, NoRandomKey, DeviceNotOpened
  <2>2. CASE ErasureEnds
    BY <2>1, <2>2 DEF ErasureEnds, start_format_luks
  <2>3. CASE pending' \in {"none", "erase_data"} /\ UNCHANGED <<status, udisks_vars>>
    BY <2>1, <2>3
  <2> QED
    BY <1>9, <2>1, <2>2, <2>3
    DEF erase_data, EraseBlock, NoRandomKey, DeviceNotOpened
<1>10. CASE format_complete
  <2>1. /\ pending = "format" /\ pending' = "rescan"
        /\ UNCHANGED <<cleartext_device_uuid, disk, unit_conf, announce>>
    BY <1>10 DEF format_complete, Returns
  <2>2. CASE /\ Accepts /\ set_status("NEEDS_RESCAN")
             /\ UNCHANGED <<data, signal_handler>>
    <3>1. status' = "NEEDS_RESCAN"
      BY <2>2, QuietEffect
    <3> QED
      BY <2>1, <2>2, <3>1 DEF Accepts
  <2>3. CASE Refuses("format") /\ end_encryption_to_failure
    BY <2>1, <2>3, FailureEffect DEF Refuses
  <2> QED
    BY <1>10, <2>2, <2>3 DEF format_complete
<1>11. CASE rescan_complete
  <2>1. /\ pending = "rescan" /\ pending' = "none"
        /\ UNCHANGED <<cleartext_device_uuid, udisks_vars, disk, announce>>
    BY <1>11 DEF rescan_complete, Returns
  <2>2. CASE /\ status = "NEEDS_RESCAN"
             /\ finish_if_ready("RESCAN_FINISHED", cleartext_device_uuid)
    <3>1. cleartext_device_uuid \in BOOLEAN
      BY DEF EncryptTypeOK
    <3>2. \/ /\ cleartext_device_uuid /\ status' \in Over
             /\ data' = "freed" /\ signal_handler' = FALSE
          \/ /\ status' = "RESCAN_FINISHED"
             /\ UNCHANGED <<data, signal_handler, unit_conf>>
      BY <2>2, <3>1, FinishEffect
    <3> QED
      BY <2>1, <2>2, <3>2
  <2>3. CASE /\ status # "NEEDS_RESCAN"
             /\ UNCHANGED <<status, data, signal_handler, unit_conf>>
    BY <2>1, <2>3
  <2> QED
    BY <1>11, <2>2, <2>3 DEF rescan_complete
<1>12. CASE UDisksJob
  BY <1>12 DEF UDisksJob, UDisksTearsDown, UDisksFormats, UDisksConfigures
<1>13. ASSUME NEW property, NEW value, on_properties_changed(property, value),
              property = "IdUUID" /\ value # "" => "IdUUID" \in announce,
              announce' \subseteq announce, UNCHANGED <<pending, udisks_vars, disk>>
       PROVE  (StatusInv /\ DataInv /\ DeviceInv)'
  <2>1. CASE UNCHANGED <<status, result_vars, data, signal_handler, unit_conf>>
    <3>1. StatusInv' /\ DataInv'
      BY <1>13, <2>1
    <3>2. \/ UNCHANGED cleartext_device_uuid
          \/ "IdUUID" \in announce /\ cleartext_device_uuid' = TRUE
      BY <1>13, PropertiesEffect
    <3>3. /\ cleartext_device_uuid => cleartext_device_uuid'
          /\ cleartext_device_uuid' => cleartext_device_uuid \/ "IdUUID" \in announce
      <4>1. CASE UNCHANGED cleartext_device_uuid
        BY <4>1
      <4>2. CASE "IdUUID" \in announce /\ cleartext_device_uuid' = TRUE
        BY <4>2
      <4> QED
        BY <3>2, <4>1, <4>2
    <3>4. /\ announce' \subseteq announce
          /\ UNCHANGED <<pending, udisks_vars, disk, status, unit_conf>>
      BY <1>13, <2>1
    <3>5. DeviceInv'
      BY <3>3, <3>4
    <3> QED
      BY <3>1, <3>5
  <2>2. CASE /\ status = "RESCAN_FINISHED" /\ cleartext_device_uuid' = TRUE
             /\ status' \in Over /\ data' = "freed" /\ signal_handler' = FALSE
    <3>1. pending = "none" /\ StatusInv' /\ DataInv'
      BY <1>13, <2>2
    <3>2. cleartext_device_uuid \/ "IdUUID" \in announce
      BY <1>13, <2>2, PropertiesEffect DEF EncryptTypeOK
    <3>3. DeviceInv'
      BY <1>13, <2>2, <3>1, <3>2
    <3> QED
      BY <3>1, <3>3
  <2> QED
    BY <1>13, <2>1, <2>2, PropertiesEffect
<1>14. ASSUME NEW property \in PropertyChange, PropertyAnnounced(property)
       PROVE  (StatusInv /\ DataInv /\ DeviceInv)'
  <2>1. /\ property \in announce /\ announce' \subseteq announce
        /\ UNCHANGED <<pending, udisks_vars, disk>>
    BY <1>14 DEF PropertyAnnounced
  <2>2. CASE on_properties_changed(property, "value")
    BY <1>13, <2>1, <2>2
  <2>3. CASE UNCHANGED <<status, data, signal_handler, cleartext_device_uuid, unit_conf>>
    BY <2>1, <2>3
  <2> QED
    BY <1>14, <2>2, <2>3 DEF PropertyAnnounced
<1>15. ASSUME NEW property \in PropertyChange, EmptyPropertyAnnounced(property)
       PROVE  (StatusInv /\ DataInv /\ DeviceInv)'
  BY <1>13, <1>15 DEF EmptyPropertyAnnounced
<1>16. CASE UNCHANGED encrypt_vars
  BY <1>16
<1> QED
  BY <1>1, <1>3, <1>4, <1>5, <1>6, <1>7, <1>8, <1>9, <1>10, <1>11, <1>12, <1>14,
     <1>15, <1>16 DEF EncryptNext, Callback, UDisks

\* The invariant of the chain, whatever fails.
THEOREM ChainCorrect == EncryptSpec => []ChainInv
<1>1. EncryptInit => ChainInv
  BY TypeInit, ChainInit DEF ChainInv
<1>2. ChainInv /\ [EncryptNext]_encrypt_vars => ChainInv'
  BY TypeStep, ChainStep DEF ChainInv
<1> QED
  BY <1>1, <1>2, PTL DEF EncryptSpec

\* No callback or signal handler of the job meets a freed invocation_data
\* (end_encryption_to_failure, finish_if_ready), whatever fails but the proxy of the
\* file system, behind which can_format_to_type does not return.
THEOREM WorkOwnsData ==
    ASSUME "fs_proxy" \notin Fault PROVE EncryptSpec => []PendingWorkOwnsData
<1>1. ChainInv => PendingWorkOwnsData
  BY DEF ChainInv, DataInv, PendingWorkOwnsData
<1> QED
  BY <1>1, ChainCorrect, PTL

\* Drop-ins that make the boot wait for an encrypted device are only there with
\* the device, although no call is answered with it: the UUID is the one sign of it
\* (write_systemd_configuration, on_properties_changed), whatever fails.
THEOREM DropInsOnlyForLuks == EncryptSpec => []UnitConfOnlyForLuks
<1>1. ChainInv => UnitConfOnlyForLuks
  BY DEF ChainInv, DeviceInv, UnitConfOnlyForLuks
<1> QED
  BY <1>1, ChainCorrect, PTL

-----------------------------------------------------------------------------
(* The client that is told *)

\* A client is noted exactly as long as there is an invocation_data.
OwnerInv == data = "live" <=> receiver # NoClient

LEMMA OwnerInit == EncryptInit => OwnerInv
BY DEF EncryptInit, JobInit, OwnerInv

\* Every step of the job is a start, a result or leaves both alone.
LEMMA OwnerStep ==
    ASSUME ChainInv, EncryptNext
    PROVE  \/ /\ status = "NOT_STARTED" /\ status' = "IN_PREPARATION"
              /\ receiver' \in Client /\ data' = "live" /\ UNCHANGED sent
           \/ /\ data = "live" /\ data' = "freed" /\ receiver' = NoClient
              /\ status \notin Over \cup {"NOT_STARTED"}
              /\ "fs_proxy" \notin Fault => status' \in Over
              /\ \E success \in BOOLEAN :
                    /\ sent' = Append(sent, [to |-> receiver, success |-> success])
                    /\ "fs_proxy" \notin Fault => success = (status' = "FINISHED")
           \/ /\ UNCHANGED <<data, receiver, sent>>
              /\ \/ UNCHANGED status
                 \/ /\ status \notin Over \cup {"NOT_STARTED"}
                    /\ status' \notin Over \cup {"NOT_STARTED"}
<1> USE DEF ChainInv, StatusInv, DataInv, Preparing, Over
<1>1. ASSUME NEW client \in Client, NEW is_temporary \in BOOLEAN,
             NEW e \in EraseType, BeginEncryption(client, is_temporary, e)
      PROVE  \/ /\ status = "NOT_STARTED" /\ status' = "IN_PREPARATION"
                /\ receiver' \in Client /\ data' = "live" /\ UNCHANGED sent
             \/ UNCHANGED <<data, receiver, sent, status>>
  BY <1>1 DEF BeginEncryption, start_to_encrypt
<1> DEFINE Told ==
        /\ data = "live" /\ data' = "freed" /\ receiver' = NoClient
        /\ status \notin Over \cup {"NOT_STARTED"}
        /\ "fs_proxy" \notin Fault => status' \in Over
        /\ \E success \in BOOLEAN :
              /\ sent' = Append(sent, [to |-> receiver, success |-> success])
              /\ "fs_proxy" \notin Fault => success = (status' = "FINISHED")
<1> DEFINE Quiet ==
        /\ UNCHANGED <<data, receiver, sent>>
        /\ \/ UNCHANGED status
           \/ /\ status \notin Over \cup {"NOT_STARTED"}
              /\ status' \notin Over \cup {"NOT_STARTED"}
<1>2. ASSUME GivesUp, pending \in Preparing PROVE Told
  BY <1>2, GivesUpEffect
<1>3. CASE got_bus
  BY <1>2, <1>3 DEF got_bus, Returns, Continue, Aborts
<1>4. CASE got_client
  BY <1>2, <1>4 DEF got_client, Returns, Continue, Aborts
<1>5. CASE check_device_list
  BY <1>2, <1>5 DEF check_device_list, Returns, Aborts
<1>6. CASE found_block_device
  BY <1>2, <1>6 DEF found_block_device, Returns, Continue, Aborts
<1>7. CASE can_format_to_type
  <2>1. CASE UnmountAndStart
    BY <1>7, <2>1
    DEF can_format_to_type, Returns, UnmountAndStart, start_erasure_with_random,
        start_format_luks
  <2>2. CASE FilesystemProxyFails
    BY <1>7, <2>2
    DEF can_format_to_type, Returns, FilesystemProxyFails, signal_encrypt_finished,
        release_data
  <2> QED
    BY <1>2, <1>7, <2>1, <2>2 DEF can_format_to_type, Returns, Aborts
<1>8. CASE tear_down_complete
  <2>1. pending = "tear_down"
    BY <1>8 DEF tear_down_complete, Returns
  <2>2. CASE UNCHANGED <<status, data, signal_handler, result_vars>>
    BY <2>2
  <2>3. CASE Refuses("tear_down") /\ end_encryption_to_failure
    BY <2>1, <2>3, FailureEffect DEF Refuses
  <2> QED
    BY <1>8, <2>2, <2>3 DEF tear_down_complete
<1>9. CASE erase_data
  BY <1>9
  DEF erase_data, Returns, EraseBlock, ErasureEnds, NoRandomKey, DeviceNotOpened,
      start_format_luks
<1>10. CASE format_complete
  <2>1. pending = "format"
    BY <1>10 DEF format_complete, Returns
  <2>2. CASE set_status("NEEDS_RESCAN") /\ UNCHANGED <<data, signal_handler>>
    <3>1. status' = "NEEDS_RESCAN" /\ UNCHANGED result_vars
      BY <2>2, QuietEffect
    <3> QED
      BY <2>1, <2>2, <3>1
  <2>3. CASE Refuses("format") /\ end_encryption_to_failure
    BY <2>1, <2>3, FailureEffect DEF Refuses
  <2> QED
    BY <1>10, <2>2, <2>3 DEF format_complete
<1>11. CASE rescan_complete
  <2>1. CASE /\ status = "NEEDS_RESCAN"
             /\ finish_if_ready("RESCAN_FINISHED", cleartext_device_uuid)
    <3>1. cleartext_device_uuid \in BOOLEAN
      BY DEF EncryptTypeOK
    <3>2. \/ /\ status' \in Over /\ data' = "freed" /\ receiver' = NoClient
             /\ sent' = Append(sent, [to |-> receiver, success |-> status' = "FINISHED"])
          \/ status' = "RESCAN_FINISHED" /\ UNCHANGED <<data, receiver, sent>>
      BY <2>1, <3>1, FinishEffect
    <3> QED
      BY <2>1, <3>2
  <2>2. CASE UNCHANGED <<status, result_vars, data, signal_handler, unit_conf>>
    BY <2>2
  <2> QED
    BY <1>11, <2>1, <2>2 DEF rescan_complete
<1>12. CASE UDisksJob
  BY <1>12 DEF UDisksJob, UDisksTearsDown, UDisksFormats, UDisksConfigures
<1>13. ASSUME NEW property, NEW value, on_properties_changed(property, value)
       PROVE  Told \/ Quiet
  BY <1>13, PropertiesEffect
<1>14. ASSUME NEW property \in PropertyChange, PropertyAnnounced(property)
       PROVE  Told \/ Quiet
  BY <1>13, <1>14 DEF PropertyAnnounced
<1>15. ASSUME NEW property \in PropertyChange, EmptyPropertyAnnounced(property)
       PROVE  Told \/ Quiet
  BY <1>13, <1>15 DEF EmptyPropertyAnnounced
<1> QED
  BY <1>1, <1>3, <1>4, <1>5, <1>6, <1>7, <1>8, <1>9, <1>10, <1>11, <1>12, <1>14,
     <1>15 DEF EncryptNext, Callback, UDisks

\* There is a client that waits for the result exactly while there is data of a job
\* (dbus.c method_call_handler, signal_encrypt_finished), whatever fails.
THEOREM OwnerCorrect == EncryptSpec => []OwnerInv
<1>1. ASSUME ChainInv, OwnerInv, [EncryptNext]_encrypt_vars PROVE OwnerInv'
  <2>1. CASE EncryptNext
    BY <1>1, <2>1, OwnerStep, ClientAssumption DEF ClientAssumption, OwnerInv
  <2>2. CASE UNCHANGED encrypt_vars
    BY <1>1, <2>2 DEF OwnerInv
  <2> QED
    BY <1>1, <2>1, <2>2
<1> QED
  BY <1>1, OwnerInit, ChainCorrect, PTL DEF EncryptSpec

\* The client that began is told, whatever fails, and nobody takes its place
\* (dbus.c method_call_handler, signal_encrypt_finished).
THEOREM BeginnerIsTold == EncryptSpec => ResultToBeginner
<1> DEFINE A == /\ receiver' \notin {receiver, NoClient} => status = "NOT_STARTED"
                /\ sent' # sent => /\ receiver # NoClient
                                   /\ sent'[Len(sent')].to = receiver
<1>1. ASSUME ChainInv, OwnerInv, [EncryptNext]_encrypt_vars
      PROVE  A \/ UNCHANGED encrypt_vars
  <2>1. CASE EncryptNext
    <3>1. CASE receiver' = NoClient /\ data = "live"
               /\ \E success \in BOOLEAN :
                      sent' = Append(sent, [to |-> receiver, success |-> success])
      <4>1. PICK success \in BOOLEAN :
                sent' = Append(sent, [to |-> receiver, success |-> success])
        BY <3>1
      <4>2. sent \in Seq(Result) /\ [to |-> receiver, success |-> success] \in Result
        BY <1>1 DEF ChainInv, EncryptTypeOK, Result
      <4>3. sent'[Len(sent')] = [to |-> receiver, success |-> success]
        BY <4>1, <4>2
      <4> QED
        BY <1>1, <3>1, <4>3 DEF OwnerInv
    <3>2. CASE status = "NOT_STARTED" /\ UNCHANGED sent
      BY <3>2
    <3>3. CASE UNCHANGED <<receiver, sent>>
      BY <3>3
    <3> QED
      BY <1>1, <2>1, <3>1, <3>2, <3>3, OwnerStep
  <2>2. CASE UNCHANGED encrypt_vars
    BY <2>2
  <2> QED
    BY <1>1, <2>1, <2>2
<1> QED
  BY <1>1, OwnerCorrect, ChainCorrect, PTL DEF EncryptSpec, ResultToBeginner

-----------------------------------------------------------------------------
(* One result, and the last word: for a service that can make its proxies *)

LEMMA AppendIsLonger ==
    ASSUME EncryptTypeOK, NEW result PROVE Append(sent, result) # sent
BY DEF EncryptTypeOK

LEMMA ResultInit == EncryptInit => ResultInv
BY DEF EncryptInit, JobInit, ResultInv, Over

LEMMA ResultStep ==
    ASSUME "fs_proxy" \notin Fault, ChainInv, ResultInv, [EncryptNext]_encrypt_vars
    PROVE  ResultInv'
<1>1. CASE EncryptNext /\ sent' # sent
  <2>1. /\ data' = "freed" /\ sent = <<>> /\ status' \in Over
        /\ \E success \in BOOLEAN :
              /\ sent' = Append(sent, [to |-> receiver, success |-> success])
              /\ success = (status' = "FINISHED")
    BY <1>1, OwnerStep DEF ResultInv
  <2>2. PICK success \in BOOLEAN :
            /\ sent' = Append(sent, [to |-> receiver, success |-> success])
            /\ success = (status' = "FINISHED")
    BY <2>1
  <2>3. Len(sent') = 1 /\ sent'[1].success = (status' = "FINISHED")
    BY <2>1, <2>2
  <2>4. signal_handler' = FALSE /\ pending' \in {"none", "rescan"}
    BY ChainStep, <2>1 DEF ChainInv, StatusInv, DataInv
  <2> QED
    BY <2>1, <2>3, <2>4 DEF ResultInv
<1>2. CASE EncryptNext /\ sent' = sent
  <2>1. CASE UNCHANGED <<status, data>>
    <3>1. (DataInv /\ StatusInv)' /\ signal_handler' \in BOOLEAN
      BY ChainStep, TypeStep DEF ChainInv, EncryptTypeOK
    <3> QED
      BY <1>2, <2>1, <3>1 DEF ResultInv, DataInv, StatusInv, Over
  <2>2. CASE status \notin Over /\ status' \notin Over
    BY <1>2, <2>2 DEF ResultInv
  <2>3. \A success : sent' # Append(sent, [to |-> receiver, success |-> success])
    BY <1>2, AppendIsLonger DEF ChainInv
  <2>4. \/ status = "NOT_STARTED" /\ status' = "IN_PREPARATION"
        \/ UNCHANGED <<status, data>>
        \/ status \notin Over /\ status' \notin Over
    BY <1>2, <2>3, OwnerStep
  <2> QED
    BY <2>1, <2>2, <2>4 DEF Over
<1>3. CASE UNCHANGED encrypt_vars
  BY <1>3 DEF ResultInv
<1> QED
  BY <1>1, <1>2, <1>3

\* When the job is over, and only then, its one result has been signalled and
\* its data freed, unless the proxy of the file system cannot be made
\* (end_encryption_to_failure, finish_if_ready).
THEOREM ResultCorrect ==
    ASSUME "fs_proxy" \notin Fault PROVE EncryptSpec => []ResultInv
<1>1. ChainInv /\ ResultInv /\ [EncryptNext]_encrypt_vars => ResultInv'
  BY ResultStep
<1> QED
  BY <1>1, ResultInit, ChainCorrect, PTL DEF EncryptSpec

\* The result that has been signalled is the last word, unless the proxy of the
\* file system cannot be made (status_changed_handler, can_format_to_type).
THEOREM ResultStaysFinal ==
    ASSUME "fs_proxy" \notin Fault PROVE EncryptSpec => []ResultIsFinal
<1>1. ChainInv /\ ResultInv => ResultIsFinal
  BY DEF ChainInv, EncryptTypeOK, Status, ResultInv, ResultIsFinal, Over
<1> QED
  BY <1>1, ResultCorrect, ChainCorrect, PTL

-----------------------------------------------------------------------------
(* What the next boot finds *)

PassphraseKind == IF temporary THEN "temporary" ELSE "user"

\* UDisks was asked to format with the passphrase of the job, and a device it has
\* formatted has its key.
KeyInv ==
    /\ request # "none" => request = PassphraseKind
    /\ disk = "luks" => luks_key = PassphraseKind /\ status # "NOT_STARTED"
    /\ /\ status \in {"NEEDS_RESCAN", "RESCAN_FINISHED", "FINISHED"}
       /\ "key_file" \notin Fault
       => PassphraseKind \in key_files

\* Success is claimed behind the last drop-in.
FinishInv ==
    status = "FINISHED" => /\ pending = "none" /\ data = "freed"
                           /\ unit_conf = AllUnitConfs

LEMMA KeyStep == ChainInv /\ KeyInv /\ [EncryptNext]_encrypt_vars => KeyInv'
<1> SUFFICES ASSUME ChainInv, KeyInv, [EncryptNext]_encrypt_vars PROVE KeyInv'
  OBVIOUS
<1> USE DEF ChainInv, StatusInv, DataInv, DeviceInv, KeyInv, Preparing, Over,
            PassphraseKind
<1>1. ASSUME NEW client \in Client, NEW is_temporary \in BOOLEAN,
             NEW e \in EraseType, BeginEncryption(client, is_temporary, e)
      PROVE  KeyInv'
  <2>1. CASE start_to_encrypt(is_temporary, e)
    BY <2>1 DEF start_to_encrypt
  <2>2. CASE UNCHANGED encrypt_vars
    BY <2>2
  <2> QED
    BY <1>1, <2>1, <2>2 DEF BeginEncryption
<1>2. ASSUME GivesUp PROVE KeyInv'
  <2>1. status' = "FAILED" /\ pending' = "none"
    BY <1>2, GivesUpEffect
  <2> QED
    BY <1>2, <2>1 DEF GivesUp
<1>3. CASE got_bus \/ got_client \/ check_device_list \/ found_block_device
  BY <1>2, <1>3
  DEF got_bus, got_client, check_device_list, found_block_device, Returns,
      Continue, Aborts
<1>4. CASE can_format_to_type
  <2>1. CASE UnmountAndStart
    BY <1>4, <2>1
    DEF can_format_to_type, Returns, UnmountAndStart, start_erasure_with_random,
        start_format_luks
  <2>2. CASE FilesystemProxyFails
    BY <1>4, <2>2 DEF can_format_to_type, Returns, FilesystemProxyFails
  <2> QED
    BY <1>2, <1>4, <2>1, <2>2 DEF can_format_to_type, Aborts
<1>5. CASE tear_down_complete
  <2>1. /\ pending = "tear_down"
        /\ UNCHANGED <<temporary, disk, luks_key, key_files>>
    BY <1>5 DEF tear_down_complete, Returns
  <2>2. CASE Accepts /\ UNCHANGED status
    BY <2>1, <2>2 DEF Accepts
  <2>3. CASE Refuses("tear_down") /\ end_encryption_to_failure
    BY <2>1, <2>3, FailureEffect DEF Refuses
  <2> QED
    BY <1>5, <2>2, <2>3 DEF tear_down_complete
<1>6. CASE erase_data
  <2>1. /\ pending = "erase_data" /\ status = "ERASURE_IN_PROGRESS"
        /\ UNCHANGED <<key_files, temporary>>
    BY <1>6
    DEF erase_data, Returns, EraseBlock, ErasureEnds, NoRandomKey, DeviceNotOpened
  <2>2. CASE ErasureEnds
    BY <2>1, <2>2 DEF ErasureEnds, start_format_luks
  <2>3. CASE /\ UNCHANGED <<status, request>>
             /\ disk' = "wiped" \/ UNCHANGED <<disk, luks_key>>
    BY <2>1, <2>3
  <2> QED
    BY <1>6, <2>1, <2>2, <2>3
    DEF erase_data, EraseBlock, NoRandomKey, DeviceNotOpened
<1>7. CASE format_complete
  <2>1. /\ pending = "format" /\ UNCHANGED <<temporary, disk, luks_key>>
    BY <1>7 DEF format_complete, Returns
  <2>2. CASE Accepts /\ create_key_file /\ set_status("NEEDS_RESCAN")
    BY <2>1, <2>2, QuietEffect DEF Accepts, create_key_file
  <2>3. CASE Refuses("format") /\ end_encryption_to_failure
    BY <2>1, <2>3, FailureEffect DEF Refuses
  <2> QED
    BY <1>7, <2>2, <2>3 DEF format_complete
<1>8. CASE rescan_complete
  <2>1. /\ pending = "rescan"
        /\ UNCHANGED <<temporary, request, disk, luks_key, key_files>>
    BY <1>8 DEF rescan_complete, Returns
  <2>2. status \in {"NEEDS_RESCAN", "FAILED"}
    BY <2>1
  <2>3. CASE /\ status = "NEEDS_RESCAN"
             /\ finish_if_ready("RESCAN_FINISHED", cleartext_device_uuid)
    <3>1. status' \in Over \cup {"RESCAN_FINISHED"}
      BY <2>3, FinishEffect DEF EncryptTypeOK
    <3> QED
      BY <2>1, <2>3, <3>1
  <2>4. CASE UNCHANGED status
    BY <2>1, <2>4
  <2> QED
    BY <1>8, <2>3, <2>4 DEF rescan_complete
<1>9. CASE UDisksJob
  BY <1>9 DEF UDisksJob, UDisksTearsDown, UDisksFormats, UDisksConfigures
<1>10. ASSUME NEW property, NEW value, on_properties_changed(property, value),
              UNCHANGED <<pending, request, disk, luks_key, key_files, temporary>>
       PROVE  KeyInv'
  BY <1>10, PropertiesEffect
<1>11. ASSUME NEW property \in PropertyChange, PropertyAnnounced(property)
       PROVE  KeyInv'
  BY <1>10, <1>11 DEF PropertyAnnounced
<1>12. ASSUME NEW property \in PropertyChange, EmptyPropertyAnnounced(property)
       PROVE  KeyInv'
  BY <1>10, <1>12 DEF EmptyPropertyAnnounced
<1>13. CASE UNCHANGED encrypt_vars
  BY <1>13
<1> QED
  BY <1>1, <1>3, <1>4, <1>5, <1>6, <1>7, <1>8, <1>9, <1>11, <1>12, <1>13
     DEF EncryptNext, Callback, UDisks

\* A job that ends with success has written all drop-ins.
LEMMA FinishWrites ==
    ASSUME NEW state, NEW known, finish_if_ready(state, known),
           status' = "FINISHED", state # "FINISHED"
    PROVE  unit_conf' = AllUnitConfs /\ data' = "freed"
<1>1. CASE write_systemd_configuration(FALSE) /\ set_status("FAILED")
  BY <1>1 DEF set_status
<1>2. CASE write_systemd_configuration(TRUE) /\ release_data
  BY <1>2 DEF write_systemd_configuration, release_data
<1>3. CASE status' = state
  BY <1>3
<1> QED
  BY <1>1, <1>2, <1>3 DEF finish_if_ready

LEMMA FinishStep == ChainInv /\ FinishInv /\ [EncryptNext]_encrypt_vars => FinishInv'
<1> SUFFICES ASSUME ChainInv, FinishInv, [EncryptNext]_encrypt_vars,
                    status' = "FINISHED"
             PROVE  FinishInv'
  BY DEF FinishInv
<1> USE DEF ChainInv, StatusInv, DataInv, DeviceInv, FinishInv, Preparing, Over
<1>1. ASSUME NEW client \in Client, NEW is_temporary \in BOOLEAN,
             NEW e \in EraseType, BeginEncryption(client, is_temporary, e)
      PROVE  FinishInv'
  BY <1>1 DEF BeginEncryption, start_to_encrypt
<1>2. ~GivesUp
  BY GivesUpEffect
<1>3. ~(got_bus \/ got_client \/ check_device_list \/ found_block_device)
  BY <1>2
  DEF got_bus, got_client, check_device_list, found_block_device, Returns,
      Continue, Aborts
<1>4. ~can_format_to_type
  BY <1>2
  DEF can_format_to_type, UnmountAndStart, start_erasure_with_random,
      start_format_luks, FilesystemProxyFails, Returns, Aborts
<1>5. ~tear_down_complete /\ ~erase_data
  BY FailureEffect
  DEF tear_down_complete, erase_data, Returns, EraseBlock, ErasureEnds,
      NoRandomKey, DeviceNotOpened, start_format_luks
<1>6. ~format_complete
  BY QuietEffect, FailureEffect DEF format_complete
<1>7. CASE rescan_complete
  BY <1>7, FinishWrites DEF rescan_complete, Returns
<1>8. CASE UDisksJob
  BY <1>8 DEF UDisksJob, UDisksTearsDown, UDisksFormats, UDisksConfigures
<1>9. ASSUME NEW property, NEW value, on_properties_changed(property, value),
             UNCHANGED pending
      PROVE  FinishInv'
  <2>1. status # "FINISHED"
    BY <1>9 DEF on_properties_changed
  <2>2. status = "RESCAN_FINISHED" /\ finish_if_ready(status, TRUE)
    BY <1>9, <2>1, FinishEffect
    DEF on_properties_changed, CleartextDeviceChanged, IdUUIDChanged
  <2> QED
    BY <1>9, <2>2, FinishWrites
<1>10. ASSUME NEW property \in PropertyChange, PropertyAnnounced(property)
       PROVE  FinishInv'
  BY <1>9, <1>10 DEF PropertyAnnounced
<1>11. ASSUME NEW property \in PropertyChange, EmptyPropertyAnnounced(property)
       PROVE  FinishInv'
  BY <1>9, <1>11 DEF EmptyPropertyAnnounced
<1>12. CASE UNCHANGED encrypt_vars
  BY <1>12
<1> QED
  BY <1>1, <1>3, <1>4, <1>5, <1>6, <1>7, <1>8, <1>10, <1>11, <1>12
     DEF EncryptNext, Callback, UDisks

\* Whoever is told of success has an encrypted device with all the drop-ins and the
\* marker of the passphrase that opens it, although UDisks answers before it formats
\* (format_complete, on_properties_changed, finish_if_ready), whatever fails.
THEOREM SuccessIsEncrypted == EncryptSpec => []FinishedIsEncrypted
<1>1. EncryptInit => KeyInv /\ FinishInv
  BY DEF EncryptInit, JobInit, DiskInit, KeyInv, FinishInv
<1>2. ChainInv /\ KeyInv /\ FinishInv => FinishedIsEncrypted
  <2> SUFFICES ASSUME ChainInv, KeyInv, FinishInv, status = "FINISHED"
               PROVE  FinishedIsEncrypted
    BY DEF FinishedIsEncrypted
  <2>1. unit_conf = AllUnitConfs /\ AllUnitConfs # {}
    BY DEF FinishInv, AllUnitConfs
  <2>2. disk = "luks"
    BY <2>1 DEF ChainInv, DeviceInv
  <2> QED
    BY <2>1, <2>2 DEF KeyInv, FinishedIsEncrypted
<1> QED
  BY <1>1, <1>2, KeyStep, FinishStep, ChainCorrect, PTL DEF EncryptSpec

-----------------------------------------------------------------------------
(* What the service and its clients rely on, also after a restart *)

\* Unlike ChainInv it holds of a service that was started again on a device an
\* earlier one has encrypted, and with a failing proxy.
StageInv == EncryptTypeOK /\ StatusInv

\* A job that was not asked to erase the device never does.
NoErasure ==
    /\ erase # "random" /\ pending # "erase_data"
    /\ pending = "tear_down" => data # "live"

\* What a callback does to what the rest of the service reads: it goes on with a
\* job that has begun and has no result yet.
CallbackEffect ==
    /\ running /\ pending # "none" /\ pending' # "bus"
    /\ status # "NOT_STARTED" /\ status' # "NOT_STARTED"
    /\ status \in Over => status' = status /\ pending = "rescan"
    /\ pending' \notin {"none", "rescan"} => pending \notin {"none", "rescan"}
    /\ UNCHANGED <<temporary, erase, crypttab>>
    /\ mounted' = mounted \/ (mounted' = FALSE /\ pending = "can_format")
    /\ disk' = disk \/ pending = "erase_data"
    /\ NoErasure => NoErasure'

\* The stage and the effect of a callback, for a callback that gives up and for
\* one that goes on.
LEMMA CallbackStage == ASSUME StageInv, Callback PROVE StageInv' /\ CallbackEffect
<1> USE DEF StageInv, StatusInv, Preparing, Over, CallbackEffect, NoErasure
<1>0. pending \in {"none", "bus", "client", "resolve", "block", "can_format",
                   "tear_down", "erase_data", "format", "rescan"}
  BY DEF EncryptTypeOK, Call
<1>1. EncryptTypeOK'
  BY TypeStep DEF EncryptNext
<1>2. ASSUME GivesUp, running, pending \notin {"none", "rescan", "format"}
      PROVE  StageInv' /\ CallbackEffect
  BY <1>0, <1>1, <1>2, GivesUpEffect DEF GivesUp, disk_vars
<1>3. CASE got_bus
  BY <1>1, <1>2, <1>3 DEF got_bus, Returns, Continue, Aborts, disk_vars
<1>4. CASE got_client
  BY <1>1, <1>2, <1>4 DEF got_client, Returns, Continue, Aborts, disk_vars
<1>5. CASE check_device_list
  BY <1>1, <1>2, <1>5 DEF check_device_list, Returns, Aborts, disk_vars
<1>6. CASE found_block_device
  BY <1>1, <1>2, <1>6 DEF found_block_device, Returns, Continue, Aborts, disk_vars
<1>7. CASE can_format_to_type
  <2>1. CASE UnmountAndStart
    BY <1>1, <1>7, <2>1
    DEF can_format_to_type, Returns, UnmountAndStart, start_erasure_with_random,
        start_format_luks
  <2>2. CASE FilesystemProxyFails
    BY <1>1, <1>7, <2>2
    DEF can_format_to_type, Returns, FilesystemProxyFails, release_data, disk_vars
  <2> QED
    BY <1>2, <1>7, <2>1, <2>2 DEF can_format_to_type, Returns, Aborts
<1>8. CASE tear_down_complete
  <2>1. /\ running /\ pending = "tear_down"
        /\ UNCHANGED <<running, temporary, erase, crypttab, mounted, disk>>
    BY <1>8 DEF tear_down_complete, Returns
  <2>2. CASE Refuses("tear_down") /\ pending' = "none" /\ end_encryption_to_failure
    BY <1>1, <2>1, <2>2, FailureEffect
  <2>3. CASE Accepts /\ pending' = "erase_data" /\ UNCHANGED <<status, data>>
    BY <1>1, <2>1, <2>3 DEF Accepts
  <2> QED
    BY <1>8, <2>2, <2>3 DEF tear_down_complete
<1>9. CASE erase_data
  <2>1. /\ running /\ pending = "erase_data"
        /\ UNCHANGED <<temporary, erase, crypttab, mounted>>
    BY <1>9
    DEF erase_data, Returns, EraseBlock, ErasureEnds, NoRandomKey, DeviceNotOpened,
        disk_vars
  <2>2. status = "ERASURE_IN_PROGRESS"
    BY <2>1
  <2>3. CASE ErasureEnds
    BY <1>1, <2>1, <2>2, <2>3 DEF ErasureEnds, start_format_luks
  <2>4. CASE UNCHANGED status /\ pending' \in {"none", "erase_data"}
    BY <1>1, <2>1, <2>2, <2>4
  <2> QED
    BY <1>9, <2>1, <2>3, <2>4 DEF erase_data, EraseBlock, NoRandomKey, DeviceNotOpened
<1>10. CASE format_complete
  <2>1. /\ running /\ pending = "format" /\ pending' = "rescan"
        /\ UNCHANGED <<temporary, erase, mounted, disk, crypttab>>
    BY <1>10 DEF format_complete, Returns
  <2>2. CASE set_status("NEEDS_RESCAN")
    BY <1>1, <2>1, <2>2, QuietEffect
  <2>3. CASE end_encryption_to_failure
    BY <1>1, <2>1, <2>3, FailureEffect
  <2> QED
    BY <1>10, <2>2, <2>3 DEF format_complete
<1>11. CASE rescan_complete
  <2>1. /\ running /\ pending = "rescan" /\ pending' = "none"
        /\ UNCHANGED <<temporary, erase, mounted, disk, crypttab>>
    BY <1>11 DEF rescan_complete, Returns
  <2>2. CASE /\ status = "NEEDS_RESCAN"
             /\ finish_if_ready("RESCAN_FINISHED", cleartext_device_uuid)
    <3>1. cleartext_device_uuid \in BOOLEAN
      BY DEF EncryptTypeOK
    <3>2. status' \in Over \cup {"RESCAN_FINISHED"}
      BY <2>2, <3>1, FinishEffect
    <3> QED
      BY <1>1, <2>1, <2>2, <3>2
  <2>3. CASE status # "NEEDS_RESCAN" /\ UNCHANGED status
    BY <1>1, <2>1, <2>3
  <2> QED
    BY <1>11, <2>2, <2>3 DEF rescan_complete
<1> QED
  BY <1>3, <1>4, <1>5, <1>6, <1>7, <1>8, <1>9, <1>10, <1>11 DEF Callback

\* A client begins only a job that has not begun.
LEMMA BeginStage ==
    ASSUME StageInv, NEW client \in Client, NEW is_temporary \in BOOLEAN,
           NEW e \in EraseType, BeginEncryption(client, is_temporary, e)
    PROVE  /\ StageInv' /\ running
           /\ UNCHANGED <<running, mounted, disk, crypttab>>
           /\ NoErasure /\ e # "random" => NoErasure'
           /\ \/ /\ status = "NOT_STARTED" /\ status' = "IN_PREPARATION"
                 /\ temporary' = is_temporary /\ pending' = "bus"
              \/ status # "NOT_STARTED" /\ UNCHANGED <<status, temporary, pending>>
<1>1. EncryptTypeOK'
  BY TypeStep DEF EncryptNext, StageInv
<1>2. CASE start_to_encrypt(is_temporary, e)
  BY <1>1, <1>2
  DEF BeginEncryption, start_to_encrypt, StageInv, StatusInv, Preparing, NoErasure
<1>3. CASE status # "NOT_STARTED" /\ UNCHANGED encrypt_vars
  BY <1>1, <1>3 DEF BeginEncryption, StageInv, StatusInv, NoErasure
<1> QED
  BY <1>2, <1>3 DEF BeginEncryption

\* UDisks wipes only what is not mounted, whatever the service does.
LEMMA DeviceStage ==
    ASSUME StageInv, UDisksJob
    PROVE  /\ StageInv'
           /\ \/ disk' = disk
              \/ disk' = "luks"
              \/ disk' = "wiped" /\ ~mounted
           /\ UNCHANGED <<running, status, temporary, pending, erase, data, mounted>>
<1>1. EncryptTypeOK'
  BY TypeStep DEF EncryptNext, UDisks, StageInv
<1> QED
  BY <1>1
  DEF UDisksJob, UDisksTearsDown, UDisksFormats, UDisksConfigures, StageInv, StatusInv,
      Preparing

\* What it announces.
LEMMA AnnouncedStage ==
    ASSUME StageInv, NEW property \in PropertyChange, PropertyAnnounced(property)
    PROVE  /\ StageInv'
           /\ \/ status = "RESCAN_FINISHED" /\ status' \in Over
              \/ UNCHANGED status
           /\ UNCHANGED <<running, temporary, pending, erase, mounted, disk, crypttab>>
           /\ NoErasure => NoErasure'
<1>1. EncryptTypeOK'
  BY TypeStep DEF EncryptNext, UDisks, StageInv
<1>2. UNCHANGED <<running, temporary, pending, erase, mounted, disk, crypttab>>
  BY DEF PropertyAnnounced
<1>3. \/ status = "RESCAN_FINISHED" /\ status' \in Over
      \/ UNCHANGED status
  BY PropertiesEffect DEF PropertyAnnounced
<1>4. data' \in {data, "freed"}
  BY PropertiesEffect DEF PropertyAnnounced
<1> QED
  BY <1>1, <1>2, <1>3, <1>4 DEF StageInv, StatusInv, Preparing, Over, NoErasure

-----------------------------------------------------------------------------
(* The promise to the clients *)

\* The job implements EncryptionLifecycle, its liveness aside: every step of
\* the chain, whatever fails, is a start, a result or nothing to its clients.
THEOREM JobKeepsPromise ==
    ASSUME "fs_proxy" \notin Fault PROVE EncryptSpec => PromiseKept
<1>1. EncryptInit => Lifecycle!LifecycleInit
  BY DEF EncryptInit, JobInit, Lifecycle!LifecycleInit, LifecycleState
<1>2. ASSUME ChainInv, [EncryptNext]_encrypt_vars
      PROVE  [Lifecycle!LifecycleNext]_(Lifecycle!lifecycle_vars)
  <2>1. CASE EncryptNext
    <3>1. CASE /\ status = "NOT_STARTED" /\ status' = "IN_PREPARATION"
               /\ receiver' \in Client /\ UNCHANGED sent
      BY <3>1
      DEF Lifecycle!LifecycleNext, Lifecycle!Begin, LifecycleState
    <3>2. CASE /\ status \notin Over \cup {"NOT_STARTED"} /\ status' \in Over
               /\ receiver' = NoClient
               /\ \E success \in BOOLEAN :
                     /\ sent' = Append(sent, [to |-> receiver, success |-> success])
                     /\ success = (status' = "FINISHED")
      <4>1. PICK success \in BOOLEAN :
                /\ sent' = Append(sent, [to |-> receiver, success |-> success])
                /\ success = (status' = "FINISHED")
        BY <3>2
      <4>2. LifecycleState = "working"
        BY <3>2 DEF LifecycleState, Over
      <4>3. LifecycleState' = IF success THEN "done" ELSE "failed"
        BY <3>2, <4>1 DEF LifecycleState, Over
      <4>4. Lifecycle!End(success)
        BY <3>2, <4>1, <4>2, <4>3 DEF Lifecycle!End
      <4> QED
        BY <4>4 DEF Lifecycle!LifecycleNext
    <3>3. CASE /\ UNCHANGED <<receiver, sent>>
               /\ \/ UNCHANGED status
                  \/ /\ status \notin Over \cup {"NOT_STARTED"}
                     /\ status' \notin Over \cup {"NOT_STARTED"}
      BY <3>3 DEF Lifecycle!lifecycle_vars, LifecycleState, Over
    <3> QED
      BY <1>2, <2>1, <3>1, <3>2, <3>3, OwnerStep
  <2>2. CASE UNCHANGED encrypt_vars
    BY <2>2 DEF Lifecycle!lifecycle_vars, LifecycleState
  <2> QED
    BY <1>2, <2>1, <2>2
<1> QED
  BY <1>1, <1>2, ChainCorrect, PTL
  DEF EncryptSpec, PromiseKept, Lifecycle!LifecycleSafety
=============================================================================
