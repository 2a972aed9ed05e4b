----------------------------- MODULE OtaManager -----------------------------
(***************************************************************************)
(* Firmware updates: ota_flash_all.py uploads an image to a node, one      *)
(* thread per node, and ota_manager.c writes it to the partition that the  *)
(* node does not run from, verifies it, makes it the one to boot, answers  *)
(* and restarts.  The node's HTTP server handles one request at a time.    *)
(*                                                                         *)
(* External are TCP, whose two ends may learn late or never that the other *)
(* is gone, the flash, whose operations may fail, the verification of an   *)
(* image by esp_ota_end() and esp_ota_set_boot_partition(), and the boot   *)
(* loader, which boots the other partition if the chosen one is no image.  *)
(***************************************************************************)
EXTENDS Naturals

CONSTANTS Files,         (* the files that users upload                        *)
          ValidFiles,    (* those which are firmware images                    *)
          Factory,       (* the image that the node came with                  *)
          Chunks,        (* pieces that a file is received and written in      *)
          MaxUploads     (* bound: runs of the tool                            *)

ASSUME UpdateAssumption ==
  /\ ValidFiles \subseteq Files
  /\ Factory \in ValidFiles
  /\ Chunks \in Nat \ {0} /\ MaxUploads \in Nat

VARIABLES
  slots,     (* ota_0 and ota_1: [file, written], the pieces written of a file *)
  bootSlot,  (* the partition to boot, in otadata                              *)
  runSlot,   (* the running partition                                          *)
  handler,   (* update_post_handler(): [pc, file, received, available, peer]   *)
  tool,      (* upload_to_ip(): [pc, file, sent, reply, result]                *)
  uploads    (* runs of the tool so far                                        *)

flashVars == <<slots, bootSlot, runSlot>>
otaVars   == <<flashVars, handler, tool, uploads>>

Slots == {0, 1}

Image(f, n) == [file |-> f, written |-> n]

IsBootable(image) == image.file \in ValidFiles /\ image.written = Chunks

NoRequest == [pc |-> "idle", file |-> Factory, received |-> 0, available |-> 0, peer |-> "gone"]

OtaInit ==
  /\ slots = [s \in Slots |-> Image(Factory, IF s = 0 THEN Chunks ELSE 0)]
  /\ bootSlot = 0
  /\ runSlot = 0
  /\ handler = NoRequest
  /\ tool = [pc |-> "idle", file |-> Factory, sent |-> 0, reply |-> "none", result |-> "none"]
  /\ uploads = 0

-----------------------------------------------------------------------------
(* The tool.  Its connection's other end is the handler's if peer is       *)
(* "alive"; reply is what the tool finds when it reads.                    *)

Serving == handler.pc # "idle" /\ handler.peer = "alive"

StartUpload(f) ==
  /\ tool.pc = "idle"
  /\ uploads < MaxUploads
  /\ uploads' = uploads + 1
  /\ tool' = [pc |-> "sending", file |-> f, sent |-> 0, reply |-> "none", result |-> "none"]
  /\ UNCHANGED <<flashVars, handler>>

(* conn.send(): the data waits in the node's buffers once it is there.     *)
SendChunk ==
  /\ tool.pc = "sending"
  /\ tool.sent < Chunks
  /\ tool' = [tool EXCEPT !.sent = @ + 1]
  /\ handler' = IF Serving THEN [handler EXCEPT !.available = @ + 1] ELSE handler
  /\ UNCHANGED <<flashVars, uploads>>

(* Mutation: every answer counts as success.                               *)
AnyAnswer(reply) == "SUCCESS"

ResultOf(reply) == IF reply = "ok" THEN "SUCCESS" ELSE "FAILED"

(* conn.getresponse() returns.                                             *)
GetResponse ==
  /\ tool.pc = "sending" /\ tool.sent = Chunks
  /\ tool.reply \in {"ok", "error"}
  /\ tool' = [tool EXCEPT !.pc = "idle", !.result = ResultOf(tool.reply)]
  /\ handler' = IF Serving THEN [handler EXCEPT !.peer = "closed"] ELSE handler
  /\ UNCHANGED <<flashVars, uploads>>

(* Mutation: the tool waits for as long as it takes.                       *)
NoTimeout == FALSE

(* timeout=120, for every operation.                                       *)
TimesOut == TRUE

(* An operation of the tool raises an exception: the connection turns out  *)
(* to be closed, or nothing happens for 120 s.  The tool's end is closed,  *)
(* which the handler may never learn while the node is not online.         *)
UploadFails(online) ==
  /\ tool.pc = "sending"
  /\ TimesOut \/ tool.reply = "closed" \/ (tool.reply = "error" /\ tool.sent < Chunks)
  /\ tool' = [tool EXCEPT !.pc = "idle", !.result = "ERROR"]
  /\ \/ ~Serving /\ UNCHANGED handler
     \/ Serving /\ handler' = [handler EXCEPT !.peer = "closed"]
     \/ Serving /\ ~online /\ handler' = [handler EXCEPT !.peer = "gone"]
  /\ UNCHANGED <<flashVars, uploads>>

-----------------------------------------------------------------------------
(* The handler.                                                            *)

(* httpd_resp_send..(): the answer reaches the tool, or it is lost with    *)
(* the connection.                                                         *)
Answer(reply) ==
  \/ Serving /\ tool' \in {[tool EXCEPT !.reply = r] : r \in {reply, "closed"}}
  \/ ~Serving /\ UNCHANGED tool

(* An early return: the update is given up, the request is answered with   *)
(* status 500 and the connection closed.                                   *)
Fail ==
  /\ Answer("error")
  /\ handler' = NoRequest
  /\ UNCHANGED <<flashVars, uploads>>

(* Mutation: the partition to write is the one configured to be booted.    *)
ConfiguredPartition == bootSlot

(* esp_ota_get_next_update_partition(): the one that is not running.       *)
UpdatePartition == 1 - runSlot

RequestWaits == handler.pc = "idle" /\ tool.pc = "sending" /\ tool.reply = "none"

(* The server takes the request that waits.  There must be a partition to  *)
(* write; nothing is erased before the first write.                        *)
BeginUpdate(hasPartition) ==
  /\ RequestWaits
  /\ hasPartition
  /\ handler' = [pc |-> "receive", file |-> tool.file, received |-> 0,
                 available |-> tool.sent, peer |-> "alive"]
  /\ UNCHANGED <<flashVars, tool, uploads>>

BeginFails ==
  /\ RequestWaits
  /\ tool' \in {[tool EXCEPT !.reply = r] : r \in {"error", "closed"}}
  /\ UNCHANGED <<flashVars, handler, uploads>>

(* httpd_req_recv() and esp_ota_write().  A receive that times out is      *)
(* tried again, which changes nothing.                                     *)
WriteChunk ==
  /\ handler.pc = "receive"
  /\ handler.received < handler.available
  /\ slots' = [slots EXCEPT ![UpdatePartition] = Image(handler.file, handler.received + 1)]
  /\ handler' = [handler EXCEPT !.received = @ + 1,
                                !.pc = IF handler.received + 1 = Chunks THEN "end" ELSE @]
  /\ UNCHANGED <<bootSlot, runSlot, tool, uploads>>

(* Mutation: every receive that fails is tried again.                      *)
NothingFails == FALSE

ReceiveFails == handler.received = handler.available /\ handler.peer = "closed"

ReceiveOrWriteFails ==
  /\ handler.pc = "receive"
  /\ ReceiveFails \/ handler.received < handler.available
  /\ Fail

(* esp_ota_end() finds a complete image.                                   *)
EndUpdate ==
  /\ handler.pc = "end"
  /\ IsBootable(slots[UpdatePartition])
  /\ handler' = [handler EXCEPT !.pc = "setBoot"]
  /\ UNCHANGED <<flashVars, tool, uploads>>

(* esp_ota_set_boot_partition() verifies the image once more.              *)
SetBootPartition ==
  /\ handler.pc = "setBoot"
  /\ IsBootable(slots[UpdatePartition])
  /\ bootSlot' = UpdatePartition
  /\ handler' = [handler EXCEPT !.pc = "respond"]
  /\ UNCHANGED <<slots, runSlot, tool, uploads>>

EndOrSetBootFails ==
  /\ handler.pc \in {"end", "setBoot"}
  /\ Fail

Respond ==
  /\ handler.pc = "respond"
  /\ Answer("ok")
  /\ handler' = [handler EXCEPT !.pc = "restart"]
  /\ UNCHANGED <<flashVars, uploads>>

HandlerStep(hasPartition) ==
  \/ BeginUpdate(hasPartition) \/ WriteChunk \/ EndUpdate \/ SetBootPartition \/ Respond
  \/ BeginFails \/ ReceiveOrWriteFails \/ EndOrSetBootFails

ToolStep(online) == SendChunk \/ GetResponse \/ UploadFails(online)

(* A reset of the node, then the boot loader.                              *)
BootOta ==
  /\ runSlot' = IF IsBootable(slots[bootSlot]) THEN bootSlot ELSE 1 - bootSlot
  /\ handler' = NoRequest
  /\ tool' = IF tool.pc = "sending" /\ tool.reply = "none"
             THEN [tool EXCEPT !.reply = "closed"] ELSE tool
  /\ UNCHANGED <<slots, bootSlot, uploads>>

-----------------------------------------------------------------------------
OtaTypeOK ==
  /\ slots \in [Slots -> [file : Files, written : 0 .. Chunks]]
  /\ {bootSlot, runSlot} \subseteq Slots
  /\ handler \in [pc : {"idle", "receive", "end", "setBoot", "respond", "restart"},
                  file : Files, received : 0 .. Chunks, available : 0 .. Chunks,
                  peer : {"alive", "closed", "gone"}]
  /\ tool \in [pc : {"idle", "sending"}, file : Files, sent : 0 .. Chunks,
               reply : {"none", "ok", "error", "closed"},
               result : {"none", "SUCCESS", "FAILED", "ERROR"}]
  /\ uploads \in 0 .. MaxUploads

(* The partition to boot always holds a complete image, wherever an upload *)
(* is cut off: by the tool, by the network, by a failing flash or by a     *)
(* reset of the node at any step.                                          *)
BootImageIsComplete == IsBootable(slots[bootSlot])

(* A node that the tool reports as [SUCCESS] boots the file that was       *)
(* uploaded, as long as no other upload starts.                            *)
SuccessIsInstalled ==
  tool.result = "SUCCESS" => slots[bootSlot] = Image(tool.file, Chunks)
=============================================================================
