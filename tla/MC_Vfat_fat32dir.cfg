\* FSDriverFAT over the images of MC_Vfat: 512-byte sectors scaled to one
\* byte, two per cluster, the data area at sector 1058 and the root
\* directory at cluster 2 (the images' boot sectors say so); two directory
\* entries per cluster; 8.3 names scaled to 2 + 1 bytes and LFN entries to
\* 2 characters.
CONSTANTS
    Clusters = {2, 3, 4, 5, 6, 7}
    SectorsPerCluster = 2
    SectorBytes = 1
    EntriesPerCluster = 2
    NameLen = 2
    ExtLen = 1
    LfnChars = 2
    FirstUsableSector = 1058
    RootDirectoryCluster = 2
    Volumes <- MCVolumes
    StartLBA = 0
    Junk = Junk
    Images <- MCImages
    Offsets = {0, 1, 2, 3, 4, 5}
    Lengths = {0, 1, 2, 3, 4, 5, 6}
SPECIFICATION Spec
INVARIANT Fat32ListingMatches
