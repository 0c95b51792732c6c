----------------------------- MODULE Transport -----------------------------
(***************************************************************************)
(* The client's transport (src/client/bridge.c, ZcNet): a connection object    *)
(* with a slot per kind of transfer.  A slot is idle, running or done; a done   *)
(* slot keeps the outcome until its owner acknowledges it, and a slot of a      *)
(* download writes into a file descriptor it borrows from its owner.            *)
(*                                                                         *)
(* libcurl and OpenSSL are external: Response is what they report of a         *)
(* transfer that ended.                                                        *)
(***************************************************************************)
EXTENDS Naturals

\* curl_multi_info_read's result for a finished transfer: the curl code, the
\* TLS alert the peer sent (0 is none), the HTTP status (0 is none), whether a
\* connection came about and ALPN chose h2, and whether length and type of a media
\* body are as declared.
Response == [code: {"ok", "verification", "issuer", "certificate", "bundle",
                    "connect", "aborted", "timeout", "partial"},
             alert: 0..255, status: 0..599, h2: BOOLEAN, fits: BOOLEAN]

\* memset in clear_slot.
IdleSlot == [easy |-> FALSE, done |-> FALSE, fd |-> 0, code |-> "ok",
             kind |-> "none", status |-> 0]

\* zc_net_start and zc_net_start_file: the slot borrows fd.
StartSlot(fd) == [IdleSlot EXCEPT !.easy = TRUE, !.fd = fd]

\* setup_error in zc_net_start: curl refused an option; the transfer is over.
SetupError(fd) ==
    [StartSlot(fd) EXCEPT !.done = TRUE, !.code = "aborted", !.kind = "config"]

\* TLS alerts by which the relay refuses the client's certificate.
Rejections == (42..46) \cup {48, 116}

\* The classification in zc_net_poll; require_http2, which aborts a transfer over
\* a connection without h2, set ZC_CONFIG before.
ErrorKind(r, stream) ==
    IF r.code # "ok"
    THEN CASE r.code = "aborted" /\ ~r.h2 -> "config"
           [] r.code \in {"verification", "issuer"} -> "trust"
           [] r.code \in {"certificate", "bundle"} -> "credentials"
           [] OTHER -> IF r.alert \in Rejections THEN "rejected"
                       ELSE IF r.code = "connect" \/ r.alert # 0 THEN "tls"
                       ELSE "network"
    ELSE IF r.status >= 300 \/ (stream /\ r.status # 200) THEN "http"
    ELSE IF stream THEN "network"
    ELSE "none"

\* A media slot at CURLMSG_DONE: a 200 with a wrong length or type becomes a
\* partial file; any other status is kept for the owner.
FinishMedia(slot, r) ==
    LET torn == r.code = "ok" /\ r.status = 200 /\ ~r.fits
    IN  [slot EXCEPT !.done = TRUE, !.status = r.status,
                     !.code = IF torn THEN "partial" ELSE r.code,
                     !.kind = IF torn THEN "http" ELSE ErrorKind(r, FALSE)]
=============================================================================
