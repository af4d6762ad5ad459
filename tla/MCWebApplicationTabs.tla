------------------------ MODULE MCWebApplicationTabs ------------------------
(* WebApplicationTabs, whose constants are numbers.                          *)
EXTENDS WebApplicationTabs
=============================================================================
