------------------------------- MODULE MCHost -------------------------------
EXTENDS Host, TLC

\* Two of the three names are the same after the cut.
MCLinkOf == ("home" :> "gw-home") @@ ("production-a" :> "gw-production")
              @@ ("production-b" :> "gw-production")
MCLinks == {"gw-home", "gw-production"}
MCCalled == ("A" :> "home") @@ ("B" :> "production-a")

\* A rename is not cut off once its data directory may have moved, nor a purge
\* once its config is gone.
MCFrail == {"rename link", "rename config", "rename drop", "rename grace", "purge hosts"}
=============================================================================
