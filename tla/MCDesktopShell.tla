--------------------------- MODULE MCDesktopShell ---------------------------
(* The desktop shell for TLC: as many windows as are ever opened, and three  *)
(* attempts, enough for requests that time out to multiply.                  *)
EXTENDS DesktopShell
=============================================================================
