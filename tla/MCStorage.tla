----------------------------- MODULE MCStorage ------------------------------
EXTENDS Storage

MCMachines == {{"ahci", "ata"}, {"nvme"}, {"ata"}}
=============================================================================
