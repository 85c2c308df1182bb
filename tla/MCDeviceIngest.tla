--------------------------- MODULE MCDeviceIngest ---------------------------
(***************************************************************************)
(* DeviceIngest for TLC: the device's events, with the one a scan, and the *)
(* requests it makes of them, singly and in batches of two.                *)
(***************************************************************************)
EXTENDS DeviceIngest

CONSTANTS a, b, plain, scan

Single(e) == [batch |-> FALSE, items |-> <<e>>]
Batch(e, f) == [batch |-> TRUE, items |-> <<e, f>>]

\* Retries of one event, alone or in a batch, batches that take two nonces in
\* both orders and can wait for each other in a circle, batches with an event
\* that has no nonce, and a scan on its own.
Retries ==
    {Single(a), Batch(a, b), Batch(b, a), Batch(a, a), Batch(plain, a), Batch(b, plain),
     Single(scan)}

\* A batch whose first event is a scan, as in the ingestion guide.
ScanBatch == {Batch(scan, b)}
=============================================================================
