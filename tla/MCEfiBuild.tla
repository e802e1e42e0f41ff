----------------------------- MODULE MCEfiBuild -----------------------------
(* Small instances of the OpenCore builder.                                *)
EXTENDS EfiBuild

MCModels      == {"MacBookPro14,3", "MacBookPro16,1"}
MCHost        == "MacBookPro14,3"
MCSpoof       == "MacBookPro16,1"
MCProfiles    == {"standard", "test_c_spoofed"}
MCRadioModels == {MCHost}
=============================================================================
