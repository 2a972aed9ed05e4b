----------------------------- MODULE WifiManager -----------------------------
(***************************************************************************)
(* The Wi-Fi of a node, wifi_manager.c: an event handler that asks the     *)
(* driver to connect, again after every disconnection, and keeps the event *)
(* bit that app_main() waits for.                                          *)
(*                                                                         *)
(* The driver and the access point are external: the driver makes one      *)
(* attempt to connect each time it is asked to, and reports what happens   *)
(* in a queue of events, which one task hands to the handler in order.     *)
(***************************************************************************)
EXTENDS Naturals, Sequences

VARIABLES
  link,        (* the station: "down", "connecting" or "online", with an address *)
  events,      (* the events that the handler has not been called with           *)
  handling,    (* in the handler of a disconnection, after esp_wifi_connect()    *)
  connected    (* WIFI_CONNECTED_BIT                                             *)

wifiVars == <<link, events, handling, connected>>

(* wifi_manager_init()                                                     *)
WifiInit == link = "down" /\ events = <<"STA_START">> /\ handling = FALSE /\ connected = FALSE

WifiManagerInit ==
  link' = "down" /\ events' = <<"STA_START">> /\ handling' = FALSE /\ connected' = FALSE

(* The driver: an attempt succeeds, association and address in one.        *)
Associate ==
  /\ link = "connecting"
  /\ link' = "online"
  /\ events' = Append(events, "GOT_IP")
  /\ UNCHANGED <<handling, connected>>

(* An attempt fails or the connection is lost.                             *)
LoseLink ==
  /\ link # "down"
  /\ link' = "down"
  /\ events' = Append(events, "DISCONNECTED")
  /\ UNCHANGED <<handling, connected>>

(* Mutation: the station connects at its start only.                       *)
ConnectsAtStart(event) == event = "STA_START"

ConnectsOn(event) == event \in {"STA_START", "DISCONNECTED"}

(* Mutation: a lost connection leaves the bit as it is.                    *)
BitKept == connected

BitWhenDisconnected == FALSE

(* wifi_event_handler() up to the clearing of the bit, which comes after   *)
(* esp_wifi_connect(), when the driver is connecting already.              *)
HandleEvent ==
  /\ events # <<>>
  /\ ~handling
  /\ events' = Tail(events)
  /\ link' = IF ConnectsOn(Head(events)) /\ link = "down" THEN "connecting" ELSE link
  /\ handling' = (Head(events) = "DISCONNECTED")
  /\ connected' = (connected \/ Head(events) = "GOT_IP")

ClearBit ==
  /\ handling
  /\ connected' = BitWhenDisconnected
  /\ handling' = FALSE
  /\ UNCHANGED <<link, events>>

WifiEventTask == HandleEvent \/ ClearBit

WifiTypeOK ==
  /\ link \in {"down", "connecting", "online"}
  /\ events \in Seq({"STA_START", "DISCONNECTED", "GOT_IP"})
  /\ {handling, connected} \subseteq BOOLEAN

(* Once the handler has been called with every event, the bit says whether *)
(* the station is online, although the handler asks for the next attempt   *)
(* before it clears the bit, and the attempt may succeed in between.       *)
BitFollowsLink == (events = <<>> /\ ~handling) => (connected <=> link = "online")
=============================================================================
