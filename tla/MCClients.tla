------------------------------ MODULE MCClients ------------------------------
(* Instances of EncryptionClients for TLC: the sets of faults its runs allow. *)
EXTENDS EncryptionClients

MCClient == {ui_client}

NoFault == {}

\* Every USB mode, and one that the service has to change.
AllUsbModes == {"charging", "developer", "mtp"}

OneUsbMode == {"mtp"}

\* One fault of each kind of way out of an encryption job, and those of UDisks.
JobFaults == {"bus", "can_format", "fs_proxy", "unmount", "format", "unit_conf",
              "format_job", "config_items", "config_late"}

\* The faults that leave a partition that can be mounted.
MountableFaults ==
    {"bus", "can_format", "unmount", "format", "key_file", "unit_conf"}

OnlyConfigItems == {"config_items"}

\* What can go wrong with systemd, logind, usb_moded and the space of the scripts.
AllHostFaults ==
    {"bus", "systemd", "login", "subscribe", "usb_moded", "mode_get",
     "mode_set", "mode_restore", "uid", "session_gone", "unit_call", "job",
     "marker_file", "home_busy", "no_space"}

UsbFaults == {"usb_moded", "mode_set"}
=============================================================================
