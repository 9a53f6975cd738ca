------------------------------ MODULE Sanitizer ------------------------------
(***************************************************************************)
(* src/sanitizer: parses a raw record, runs the injection gateway over it  *)
(* and publishes the redacted text with the patterns it found.             *)
(***************************************************************************)
EXTENDS Broker

(* injection_gateway: the patterns it redacted travel in the envelope.     *)
InjectionGateway(m) == [m EXCEPT !.pi = PatternsOf[m.rec]]

ProcessRawRecord ==
    /\ step["sanitizer"] = "taken"
    /\ Publish("sanitized", InjectionGateway(hand["sanitizer"]))
    /\ Finish("sanitizer")
    /\ UNCHANGED discovery
=============================================================================
