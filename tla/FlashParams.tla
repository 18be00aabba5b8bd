----------------------------- MODULE FlashParams -----------------------------
(***************************************************************************)
(* The parameters in flash (src/deepbrain/apps/device_params_manage): one  *)
(* record in memory, changed under a lock by the services and written as a *)
(* whole with its checksum.  Power can go at any moment; a record that was *)
(* being written then fails its checksum at the next start.                *)
(***************************************************************************)
EXTENDS Integers

CONSTANTS
    Values,   \* values of the parameters the services set
    Default,  \* what a parameter is after init_device_params_v1
    Torn      \* what flash holds while, and after, a write does not end

Fields == {"auth_info", "wifi_infos", "basic_info", "memo_array", "ota_mode"}
OtaModes == {"zero", "FORMAL", "TEST"}
Allowed(f) == IF f = "ota_mode" THEN OtaModes ELSE Values \cup {Default}
Record == {r \in [Fields -> OtaModes \cup Values \cup {Default}] :
              \A f \in Fields : r[f] \in Allowed(f)}

VARIABLES
    up,      \* the power is on and init_device_params has begun
    ram,     \* g_device_params
    flash,   \* what the flash holds: a record or Torn
    setting, \* the case of set_flash_cfg under way, "boot", or "none"
    writing, \* flash_op_write is under way
    ret,     \* what the last set_flash_cfg returned
    failed,  \* history: the last write failed
    asked    \* history: what each parameter was last set to, or found at

flashVars == <<up, ram, flash, setting, writing, ret, failed, asked>>

\* init_device_params_v1
Defaults == [f \in Fields |-> IF f = "ota_mode" THEN "zero" ELSE Default]

FlashInit ==
    /\ up = FALSE /\ ram = Defaults /\ setting = "none" /\ writing = FALSE
    /\ flash \in {Torn} \cup {[Defaults EXCEPT !["ota_mode"] = m] : m \in OtaModes}
    /\ ret = FALSE /\ failed = FALSE /\ asked = Defaults
-----------------------------------------------------------------------------
\* get_device_params_crc: a record that was not written to its end does not
\* have the checksum that it says.
ChecksumIsRight(f) == f # Torn

\* The record is taken as it is.
InitDeviceParamsUnchecked ==
    /\ ~up /\ up' = TRUE /\ writing' = FALSE /\ failed' = FALSE
    /\ ram' = (IF flash = Torn THEN Defaults ELSE flash) /\ asked' = ram'
    /\ setting' = "none" /\ UNCHANGED <<flash, ret>>
\* init_device_params: a record that is not right gives way to the defaults,
\* which are saved.
InitDeviceParams ==
    /\ ~up /\ up' = TRUE
    /\ ram' = IF ChecksumIsRight(flash) THEN flash ELSE Defaults
    /\ setting' = IF ChecksumIsRight(flash) THEN "none" ELSE "boot"
    /\ writing' = (setting' = "boot")
    /\ asked' = ram' /\ failed' = FALSE
    /\ UNCHANGED <<flash, ret>>
-----------------------------------------------------------------------------
\* get_flash_cfg: an ota mode nobody set is the formal one.
GetFlashCfg(f) ==
    IF f = "ota_mode" /\ ram[f] # "TEST" THEN "FORMAL" ELSE ram[f]

\* set_flash_cfg takes the lock; the parameters of the maker and the memos are
\* always saved, the others when they change.
Locked == up /\ setting = "none"
Sets(f, v) ==
    /\ Locked /\ ram' = [ram EXCEPT ![f] = v] /\ asked' = [asked EXCEPT ![f] = v]
    /\ IF f \in {"auth_info", "memo_array"} \/ ram[f] # v
         THEN setting' = f /\ writing' = TRUE /\ UNCHANGED ret
         ELSE ret' = FALSE /\ UNCHANGED <<setting, writing>>
    /\ UNCHANGED <<up, flash, failed>>

SetAuthInfo == \E v \in Values : Sets("auth_info", v)
SetWifiInfo == \E v \in Values : Sets("wifi_infos", v)
SetDeviceLicense == \E v \in Values : Sets("basic_info", v)
SetMemoParams == \E v \in Values : Sets("memo_array", v)

\* save_device_params: flash_op_write erases and writes; for that time there
\* is no record.
WriteBegins ==
    /\ writing /\ flash' = Torn
    /\ UNCHANGED <<up, ram, setting, writing, ret, failed, asked>>

\* FLASH_CFG_MEMO_PARAMS has no break: the first word of the memos, which is
\* the handle of a timer, is taken for an ota mode, and the record saved again.
\* It is no change when the first place has no timer and no mode was ever set.
FallsThrough(noTimer) ==
    setting = "memo_array" /\ ~(noTimer /\ ram["ota_mode"] = "zero")
\* The next case is the license.
WrittenFallsFurther(ok, noTimer) ==
    /\ ret' = ok /\ failed' = ~ok
    /\ IF FallsThrough(noTimer)
         THEN setting' = "ota_mode" /\ ram' = [ram EXCEPT !["basic_info"] = ram["memo_array"]]
              /\ writing' = TRUE
         ELSE setting' = "none" /\ writing' = FALSE /\ UNCHANGED ram
    /\ UNCHANGED <<up, asked>>
Written(ok, noTimer) ==
    /\ ret' = ok /\ failed' = ~ok
    /\ IF FallsThrough(noTimer)
         THEN setting' = "ota_mode" /\ ram' = [ram EXCEPT !["ota_mode"] = "FORMAL"]
              /\ writing' = TRUE
         ELSE setting' = "none" /\ writing' = FALSE /\ UNCHANGED ram
    /\ UNCHANGED <<up, asked>>
WriteEnds == /\ writing /\ flash = Torn /\ flash' = ram
             /\ \E noTimer \in BOOLEAN : Written(TRUE, noTimer)
WriteFails == /\ writing /\ UNCHANGED flash
              /\ \E noTimer \in BOOLEAN : Written(FALSE, noTimer)

PowerCut ==
    /\ up /\ up' = FALSE /\ setting' = "none" /\ writing' = FALSE
    /\ UNCHANGED <<ram, flash, ret, failed, asked>>

FlashNext == \/ InitDeviceParams \/ SetAuthInfo \/ SetWifiInfo \/ SetDeviceLicense
             \/ SetMemoParams \/ WriteBegins \/ WriteEnds \/ WriteFails \/ PowerCut
FlashSpec == FlashInit /\ [][FlashNext]_flashVars
-----------------------------------------------------------------------------
FlashTypeOK ==
    /\ up \in BOOLEAN /\ ram \in Record /\ flash \in Record \cup {Torn}
    /\ setting \in Fields \cup {"none", "boot"} /\ writing \in BOOLEAN
    /\ ret \in BOOLEAN /\ failed \in BOOLEAN /\ asked \in Record

\* Whoever saves what: outside a save the flash holds the record the services
\* see, unless the last write failed (save_device_params under
\* g_lock_flash_config).
FlashIsWhole ==
    up /\ setting = "none" /\ ~failed => flash = ram

\* The services share the record and do not disturb each other: each finds
\* the parameter it set, through the saves of the others.  Only the memos
\* touch another: they end the test mode of the updates.
ParametersAreSeparate ==
    up => /\ \A f \in Fields \ {"ota_mode"} : GetFlashCfg(f) = asked[f]
          /\ ram["ota_mode"] \in {asked["ota_mode"], "FORMAL"}

\* Both: what a service set is what it finds, at once in memory and, after a
\* write that did not fail, at the next start.
ParametersAreKept == FlashIsWhole /\ ParametersAreSeparate
=============================================================================
