------------------------------ MODULE MCWebDriver ------------------------------
(* WebDriver for TLC.                                                       *)
EXTENDS WebDriver

===============================================================================
