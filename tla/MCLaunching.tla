------------------------------ MODULE MCLaunching ------------------------------
(* Small instances of Launching for TLC: the switches that a rule of the         *)
(* validation is about, and one that none is about.                              *)
EXTENDS Launching

MCSwitches == {"discovery", "credentialsEnabled", "group"}
MCDirectories == {"album", "elsewhere"}
MCMediaRoots == {"album"}
===============================================================================
