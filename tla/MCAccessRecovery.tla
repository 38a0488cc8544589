-------------------------- MODULE MCAccessRecovery --------------------------
(* A small instance of AccessRecovery: the default ladder of a domain that *)
(* lists backoff twice, a browser and an unauthorized captcha solver.      *)
EXTENDS AccessRecovery

CONSTANTS q1, q2, backoff, browser, captcha

TwoRequests == {q1, q2}
MCConfigured == <<backoff, captcha, browser, backoff>>
MCRetrying == {backoff}
MCDisabled == {captcha}
MCRendering == {browser}
MCReactions == {"ok", "auth", "rate", "error", "redirect"}
=============================================================================
